---- MODULE Spec2Model ----
(***************************************************************************)
(* GentleDB (src/GentleDB.js, v1.0.3): a debounced, hook-driven wrapper    *)
(* around one lowdb JSON file, with an advisory lock file and a file       *)
(* watcher.                                                                *)
(*                                                                         *)
(* These state machines share this module:                                 *)
(*   SpecLock   the lock-marker protocol (_acquireLock / _releaseLock) run *)
(*              by several processes that share one backing path, and      *)
(*              SpecLockFair, the same under a fair scheduler;             *)
(*   Spec       the operation pipeline of one instance (debounce, chain,   *)
(*              hooks, lock, physical I/O) next to one other process that  *)
(*              takes and returns the lock;                                *)
(*   SpecWatch  the pipeline of one instance whose listeners leave the     *)
(*              events alone, with findMatches, the file watcher and a     *)
(*              program that modifies the file;                            *)
(*   SpecManual the write pipeline of one instance whose application also  *)
(*              calls lock() and unlock();                                 *)
(*   SpecNest   the pipeline of one instance whose listeners call read()   *)
(*              on the instance from inside a dispatch;                    *)
(*   SpecEmit   the pipeline of one instance whose pre-events go to two    *)
(*              registered listeners, called one by one;                   *)
(*   SpecInit   the initialization the constructor starts, on a path with  *)
(*              or without a backing file, then the read pipeline;         *)
(*   SpecMerge  one call of _deepMerge, SpecFind one call of findMatches;  *)
(*   SpecFair   Spec under a fair event loop;                              *)
(*   SpecPeer   the write pipeline of one instance beside an instance in   *)
(*              another process that merge-writes the same file;           *)
(*   SpecSuppress the pipeline of one instance with a listener that calls  *)
(*              preventChain(), the watcher and lock() / unlock();         *)
(*   SpecClose  the write pipeline and the watcher of one instance whose   *)
(*              application calls close().                                 *)
(* Time is abstract: a timer fires, a timeout elapses or a marker grows    *)
(* old as a nondeterministic step.                                         *)
(***************************************************************************)
EXTENDS Integers, Sequences, FiniteSets, TLC

(***************************************************************************)
(* Bounds of the model.                                                    *)
(***************************************************************************)
NProcs == 3
MaxCalls == 2
MaxExt == 1
MaxFind == 1

Procs == 1..NProcs

\* the instance whose pipeline Spec follows, and the other process of Spec
Self == 1
Other == 2

(***************************************************************************)
(* Documents. A JSON object is a function from its keys to values, {} is   *)
(* the empty function; a scalar n is the one-field function "#" :> n and   *)
(* undefined is "?" :> 0, so that any two values compare.                  *)
(***************************************************************************)
Scalar(n) == [k \in {"#"} |-> n]
Undefined == [k \in {"?"} |-> 0]
\* null: what JSONFile.read() returns for a path without a file
Null == [k \in {"?"} |-> 1]
\* an Error with this message
Err(msg) == [k \in {"!"} |-> msg]
\* no helper has returned yet
NoResult == Err("not called")
\* a JSON array of the values s[1], ..., s[Len(s)]
Arr(s) == [k \in {"@"} |-> s]
IsArray(v) == DOMAIN v = {"@"}
\* a JSON string, as the sequence of its characters
Str(cs) == [k \in {"$"} |-> cs]
IsString(v) == DOMAIN v = {"$"}
IsObject(v) ==
    /\ "#" \notin DOMAIN v /\ "?" \notin DOMAIN v
    /\ "@" \notin DOMAIN v /\ "$" \notin DOMAIN v
Obj1(k, v) == [j \in {k} |-> v]

\* GentleDB._cloneSafe: structuredClone / JSON round trip of a JSON value
_cloneSafe(x) == x

\* _deepEqual: recursive structural equality, key order ignored
_deepEqual(a, b) == a = b

\* the keys _deepMerge passes over in b
SkippedKeys == {"__proto__", "constructor", "prototype"}

\* _deepMerge; a is changed in place and returned, the callers hand it a clone
RECURSIVE _deepMerge(_, _)
_deepMerge(a, b) ==
    IF b = Undefined THEN a
    ELSE IF a = Undefined \/ a = Null THEN _cloneSafe(b)
    ELSE IF ~IsObject(a) THEN _cloneSafe(b)
    ELSE IF b = Null THEN Err("TypeError")   \* Object.keys(null) throws
    ELSE IF ~IsObject(b) THEN _cloneSafe(b)
    ELSE [k \in DOMAIN a \cup {j \in DOMAIN b : j \notin SkippedKeys /\ b[j] # Undefined} |->
            IF k \notin DOMAIN b \/ k \in SkippedKeys THEN a[k]
            ELSE IF b[k] = Undefined THEN a[k]
            ELSE IF IsObject(b[k])
                 THEN _deepMerge(IF k \notin DOMAIN a THEN <<>>
                                 ELSE IF a[k] = Undefined THEN <<>> ELSE a[k], b[k])
                 ELSE _cloneSafe(b[k])]

\* _computeTopLevelChanges: the top-level keys whose values differ
Keys(v) == IF IsObject(v) THEN DOMAIN v ELSE {}
At(v, k) == IF k \in Keys(v) THEN v[k] ELSE Undefined
_computeTopLevelChanges(oldObj, newObj) ==
    {k \in Keys(oldObj) \cup Keys(newObj) : ~_deepEqual(At(oldObj, k), At(newObj, k))}

\* the object it returns: out[k] = { old: clone(a), new: clone(b) }
Changes(oldObj, newObj) ==
    [k \in _computeTopLevelChanges(oldObj, newObj) |->
        [old |-> _cloneSafe(At(oldObj, k)), new |-> _cloneSafe(At(newObj, k))]]

\* opts.defaultData and the payloads the callers submit
defaultData == Obj1("n", Obj1("x", Scalar(0)))
WritePayloads == {Obj1("n", Obj1("y", Scalar(1))), Obj1("a", Scalar(1))}
ReplacePayloads == {Obj1("a", Scalar(1))}
\* what another process may put into the backing file
ExtDocs == {Obj1("a", Scalar(2))}
\* the value a hook hands to evt.setResult
HookResult == Scalar(13)

\* the errors an operation is rejected with
LockTimeoutError == Err("Could not acquire DB lock")
IOError == Err("I/O error")

(***************************************************************************)
(* The lock marker file <backing-path>.lock.                               *)
(*   owner    the process whose exclusive create made this file            *)
(*   payload  TRUE once {pid, ts} has been written into it                 *)
(*   old      TRUE once its ts and mtime are older than lockStaleMs        *)
(***************************************************************************)
NoMarker == [owner |-> 0, payload |-> FALSE, old |-> FALSE]

VARIABLES
    marker,              \* the file at _lockPath, or NoMarker
    lpc,                 \* per process: where it is in _acquireLock
    heldLockHandle,      \* per process: this._heldLockHandle is set
    data,                \* this._low.data, the in-memory Document
    file,                \* the content of the backing file
    snapshot,            \* this._lastOnDiskSnapshot
    pendingWrite,        \* this._pendingWrite
    writeTimer,          \* this._writeTimer is armed
    pendingRead,         \* this._pendingRead
    readTimer,           \* this._readTimer is armed
    calls,               \* every read/write/replace/resetDefault call and its promise
    intents,             \* the Intents detached by the timers, in detachment order
    chainTail,           \* the Intent whose promise this._chain is (0: the initial one)
    isWriting,           \* this._isWriting
    suppressWatchEvents, \* this._suppressWatchEvents
    fsEvent,             \* a filesystem notification for the backing file is under way
    schedule,            \* the watcher's debounce timer is armed
    rpc,                 \* where _handleExternalFileChange is
    oldRuntime,          \* its local oldRuntime
    diskSnapshot,        \* its local diskSnapshot
    changeLog,           \* the 'change' notifications dispatched so far
    watcherErrors,       \* the 'watcher:error' events emitted so far
    lastIO,              \* the last Document this instance wrote to or read from the file
    extDiff,             \* external modifications that differed from the Disk Snapshot
    nExt,                \* external modifications so far
    nFind,               \* findMatches calls so far
    listening,           \* listeners are registered (on) for the hook events
    ipc,                 \* where the constructor's _initPromise is
    lowdb,               \* the flavour of the lowdb module that was loaded
    args,                \* the arguments of a call of one of the pure helpers
    result,              \* what that call returned (NoResult: not called yet)
    closed               \* close() was called, and how many calls and Intents
                         \* there were when it was (kept for the properties)

lockVars == <<marker, lpc, heldLockHandle>>

dbVars == <<data, file, snapshot, pendingWrite, writeTimer, pendingRead, readTimer,
            calls, intents, chainTail, isWriting, suppressWatchEvents, fsEvent,
            schedule, rpc, oldRuntime, diskSnapshot, changeLog, watcherErrors, lastIO, extDiff, nExt, nFind, listening, ipc, lowdb, args, result, closed>>

vars == <<marker, lpc, heldLockHandle, data, file, snapshot, pendingWrite, writeTimer,
          pendingRead, readTimer, calls, intents, chainTail, isWriting,
          suppressWatchEvents, fsEvent, schedule, rpc, oldRuntime, diskSnapshot, changeLog, watcherErrors, lastIO,
          extDiff, nExt, nFind, listening, ipc, lowdb, args, result, closed>>

LockPcs == {"idle", "open", "payload", "read", "stat", "unlink", "sleep",
            "held", "failed", "dead"}

TypeLock ==
    /\ marker \in [owner : 0..NProcs, payload : BOOLEAN, old : BOOLEAN]
    /\ lpc \in [Procs -> LockPcs]
    /\ heldLockHandle \in [Procs -> BOOLEAN]

\* this._pendingWrite = null, this._pendingRead = null
NoPendingWrite == [set |-> FALSE, data |-> Undefined, replace |-> FALSE, op |-> "",
                   resolvers |-> <<>>]
NoPendingRead == [set |-> FALSE, resolvers |-> <<>>]

\* this._watcher is set: close() has not been called
NotClosed == [done |-> FALSE, calls |-> 0, intents |-> 0]

\* The lowdb module _loadLowdbModule found ("lowdb (v3+)"): up to v5 a Low
\* starts with data = null and read() assigns whatever the adapter returns;
\* from v6 on a Low starts with the default data it was constructed with and
\* read() keeps its data when the adapter returns null.
LowdbFlavours == {"startsNull", "keepsData"}

\* new Low(adapter, defaultData).data
LowNew(d) == IF lowdb = "keepsData" THEN d ELSE Null

\* this._low.data after await this._low.read(), the file holding f
LowRead(d, f) == IF lowdb = "keepsData" /\ f = Null THEN d ELSE f

\* The state once _initPromise has resolved on a path whose backing file holds
\* the default data: it was read and taken as the Disk Snapshot.
InitInstance ==
    /\ marker = NoMarker
    /\ lpc = [p \in Procs |-> "idle"]
    /\ heldLockHandle = [p \in Procs |-> FALSE]
    /\ data = _cloneSafe(defaultData)
    /\ file = defaultData
    /\ snapshot = _cloneSafe(defaultData)
    /\ pendingWrite = NoPendingWrite
    /\ writeTimer = FALSE
    /\ pendingRead = NoPendingRead
    /\ readTimer = FALSE
    /\ calls = <<>>
    /\ intents = <<>>
    /\ chainTail = 0
    /\ isWriting = FALSE
    /\ suppressWatchEvents = FALSE
    /\ fsEvent = FALSE
    /\ schedule = FALSE
    /\ rpc = "idle"
    /\ oldRuntime = Undefined
    /\ diskSnapshot = Undefined
    /\ changeLog = <<>>
    /\ watcherErrors = 0
    /\ lastIO = defaultData
    /\ extDiff = 0
    /\ nExt = 0
    /\ nFind = 0
    /\ ipc = "ready"
    /\ lowdb = "keepsData"
    /\ closed = NotClosed

\* no helper is followed on its own
InitState == InitInstance /\ args = <<>> /\ result = NoResult

\* with listeners registered for the hook events
Init == InitState /\ listening = TRUE

\* with no listener registered
InitQuiet == InitState /\ listening = FALSE

(***************************************************************************)
(* _acquireLock, one action per await.                                     *)
(***************************************************************************)
\* LockOpen letting a process in on a marker of its own
LockOpenReentrant(p) ==
    /\ lpc[p] = "open"
    /\ IF marker = NoMarker \/ marker.owner = p
       THEN /\ marker' = [owner |-> p, payload |-> FALSE, old |-> FALSE]
            /\ lpc' = [lpc EXCEPT ![p] = "payload"]
       ELSE /\ lpc' = [lpc EXCEPT ![p] = "read"]
            /\ UNCHANGED marker
    /\ UNCHANGED heldLockHandle
    /\ UNCHANGED dbVars

\* fsp.open(lockPath, 'wx'): creates the (still empty) file, or EEXIST.
LockOpen(p) ==
    /\ lpc[p] = "open"
    /\ IF marker = NoMarker
       THEN /\ marker' = [owner |-> p, payload |-> FALSE, old |-> FALSE]
            /\ lpc' = [lpc EXCEPT ![p] = "payload"]
       ELSE /\ lpc' = [lpc EXCEPT ![p] = "read"]
            /\ UNCHANGED marker
    /\ UNCHANGED heldLockHandle
    /\ UNCHANGED dbVars

\* handle.writeFile(payload) and the best-effort datasync, through the open
\* handle: it reaches the file at lockPath only if that is still the file this
\* process created. Then this._heldLockHandle = handle; return.
LockWritePayload(p) ==
    /\ lpc[p] = "payload"
    /\ marker' = IF marker.owner = p THEN [marker EXCEPT !.payload = TRUE]
                 ELSE marker
    /\ heldLockHandle' = [heldLockHandle EXCEPT ![p] = TRUE]
    /\ lpc' = [lpc EXCEPT ![p] = "held"]
    /\ UNCHANGED dbVars

\* fsp.readFile + JSON.parse: a parsed ts older than staleMs issues the unlink;
\* a missing or unparsable file, or a fresh ts, falls through to the mtime check.
LockRead(p) ==
    /\ lpc[p] = "read"
    /\ lpc' = [lpc EXCEPT ![p] =
                 IF marker # NoMarker /\ marker.payload /\ marker.old
                 THEN "unlink" ELSE "stat"]
    /\ UNCHANGED <<marker, heldLockHandle>>
    /\ UNCHANGED dbVars

\* fsp.stat without the mtime comparison
LockStatNoMtime(p) ==
    /\ lpc[p] = "stat"
    /\ IF marker = NoMarker
       THEN lpc' = [lpc EXCEPT ![p] = "unlink"]
       ELSE \E timedOut \in BOOLEAN :
               lpc' = [lpc EXCEPT ![p] = IF timedOut THEN "failed" ELSE "sleep"]
    /\ UNCHANGED <<marker, heldLockHandle>>
    /\ UNCHANGED dbVars

\* fsp.stat: a failing stat or an old mtime issues the unlink; otherwise the
\* timeout check either throws or sleeps retryDelay.
LockStat(p) ==
    /\ lpc[p] = "stat"
    /\ IF marker = NoMarker \/ marker.old
       THEN lpc' = [lpc EXCEPT ![p] = "unlink"]
       ELSE \E timedOut \in BOOLEAN :
               lpc' = [lpc EXCEPT ![p] = IF timedOut THEN "failed" ELSE "sleep"]
    /\ UNCHANGED <<marker, heldLockHandle>>
    /\ UNCHANGED dbVars

\* fsp.unlink(lockPath) of the stale-marker paths, errors ignored; continue.
LockUnlinkStale(p) ==
    /\ lpc[p] = "unlink"
    /\ marker' = NoMarker
    /\ lpc' = [lpc EXCEPT ![p] = "open"]
    /\ UNCHANGED heldLockHandle
    /\ UNCHANGED dbVars

\* the retry delay elapsed; continue.
LockRetry(p) ==
    /\ lpc[p] = "sleep"
    /\ lpc' = [lpc EXCEPT ![p] = "open"]
    /\ UNCHANGED <<marker, heldLockHandle>>
    /\ UNCHANGED dbVars

\* _releaseLock without the unlink
_releaseLockKeepsFile(m, held) == m

\* _releaseLock: what it leaves at lockPath. The handle is closed and forgotten
\* only if there is one; the unlink of lockPath is outside that test.
_releaseLock(m, held) == NoMarker

(***************************************************************************)
(* The callers of the lock in SpecLock: every process is an instance that  *)
(* runs the lock section of a write Intent, and may close().               *)
(***************************************************************************)
\* _debouncedWrite: await this._acquireLock()
BeginAcquire(p) ==
    /\ lpc[p] = "idle"
    /\ lpc' = [lpc EXCEPT ![p] = "open"]
    /\ UNCHANGED <<marker, heldLockHandle>>
    /\ UNCHANGED dbVars

\* _debouncedWrite: the finally block after the physical write
ReleaseAfterWrite(p) ==
    /\ lpc[p] = "held"
    /\ marker' = _releaseLock(marker, heldLockHandle[p])
    /\ heldLockHandle' = [heldLockHandle EXCEPT ![p] = FALSE]
    /\ lpc' = [lpc EXCEPT ![p] = "idle"]
    /\ UNCHANGED dbVars

\* _debouncedWrite: the catch block after _acquireLock threw the timeout
ReleaseAfterTimeout(p) ==
    /\ lpc[p] = "failed"
    /\ marker' = _releaseLock(marker, heldLockHandle[p])
    /\ heldLockHandle' = [heldLockHandle EXCEPT ![p] = FALSE]
    /\ lpc' = [lpc EXCEPT ![p] = "idle"]
    /\ UNCHANGED dbVars

\* close() of an instance that has no operation in flight
CloseIdle(p) ==
    /\ lpc[p] = "idle"
    /\ marker' = _releaseLock(marker, heldLockHandle[p])
    /\ heldLockHandle' = [heldLockHandle EXCEPT ![p] = FALSE]
    /\ UNCHANGED lpc
    /\ UNCHANGED dbVars

\* the process dies inside its section, or between the exclusive create and
\* the payload write (SIGKILL): the marker stays behind, in the second case
\* empty, so JSON.parse of it throws
Crash(p) ==
    /\ lpc[p] \in {"payload", "held"}
    /\ lpc' = [lpc EXCEPT ![p] = "dead"]
    /\ UNCHANGED <<marker, heldLockHandle>>
    /\ UNCHANGED dbVars

\* lockStaleMs passes over a marker. No live holder keeps the lock that long:
\* only the marker of a dead process grows old.
MarkerAges ==
    /\ marker # NoMarker
    /\ ~marker.old
    /\ lpc[marker.owner] = "dead"
    /\ marker' = [marker EXCEPT !.old = TRUE]
    /\ UNCHANGED <<lpc, heldLockHandle>>
    /\ UNCHANGED dbVars

\* the other process of Spec takes the free lock (its exclusive create and
\* payload write) and gives it back
OtherAcquires ==
    /\ lpc[Other] = "idle"
    /\ marker = NoMarker
    /\ marker' = [owner |-> Other, payload |-> TRUE, old |-> FALSE]
    /\ heldLockHandle' = [heldLockHandle EXCEPT ![Other] = TRUE]
    /\ lpc' = [lpc EXCEPT ![Other] = "held"]
    /\ UNCHANGED dbVars

NextLock ==
    \/ \E p \in Procs : BeginAcquire(p)
    \/ \E p \in Procs : LockOpen(p)
    \/ \E p \in Procs : LockWritePayload(p)
    \/ \E p \in Procs : LockRead(p)
    \/ \E p \in Procs : LockStat(p)
    \/ \E p \in Procs : LockUnlinkStale(p)
    \/ \E p \in Procs : LockRetry(p)
    \/ \E p \in Procs : ReleaseAfterWrite(p)
    \/ \E p \in Procs : ReleaseAfterTimeout(p)
    \/ \E p \in Procs : CloseIdle(p)
    \/ \E p \in Procs : Crash(p)
    \/ MarkerAges

SpecLock == Init /\ [][NextLock]_vars

\* SpecLock under a fair scheduler: every pending await of a live process
\* completes, a holder releases, the marker of a dead process grows old, and
\* the clock advances, so that a process that can take the timeout check again
\* and again finds the timeout exceeded at last. Nothing obliges a process to
\* start an acquisition, to close or to die.
FairLock ==
    /\ \A p \in Procs : WF_vars(LockOpen(p))
    /\ \A p \in Procs : WF_vars(LockWritePayload(p))
    /\ \A p \in Procs : WF_vars(LockRead(p))
    /\ \A p \in Procs : WF_vars(LockStat(p))
    /\ \A p \in Procs : WF_vars(LockUnlinkStale(p))
    /\ \A p \in Procs : WF_vars(LockRetry(p))
    /\ \A p \in Procs : WF_vars(ReleaseAfterWrite(p))
    /\ \A p \in Procs : WF_vars(ReleaseAfterTimeout(p))
    /\ \A p \in Procs : SF_vars(LockStat(p) /\ lpc'[p] = "failed")
    /\ WF_vars(MarkerAges)

SpecLockFair == Init /\ [][NextLock]_vars /\ FairLock

InSection(p) == lpc[p] = "held"

(***************************************************************************)
(* Events and hooks. _makeEvent builds {defaultPrevented, _result,         *)
(* newData, ...}; a hook is drawn per dispatch from what a listener may do *)
(* with the event.                                                         *)
(***************************************************************************)
_makeEvent(newData) ==
    [defaultPrevented |-> FALSE, result |-> Undefined, newData |-> _cloneSafe(newData)]
NoEvt == _makeEvent(Undefined)

\* evt.set('h', 1) on an object Document
HookSet(nd) ==
    IF IsObject(nd)
    THEN [k \in DOMAIN nd \cup {"h"} |-> IF k = "h" THEN Scalar(1) ELSE nd[k]]
    ELSE nd

\* this._ee.listeners(name): without listeners nothing touches the event
WriteHookActs == IF listening THEN {"none", "preventDefault", "setResult", "set"}
                 ELSE {"none"}
ReadHookActs == IF listening THEN {"none", "preventDefault", "setResult"}
                ELSE {"none"}

\* what the listeners of one cancellable event did to it (_emitSequential)
_emitSequential(h, evt) ==
    CASE h = "preventDefault" -> [evt EXCEPT !.defaultPrevented = TRUE]
      [] h = "setResult" -> [evt EXCEPT !.result = HookResult, !.defaultPrevented = TRUE]
      [] h = "set" -> [evt EXCEPT !.newData = HookSet(evt.newData)]
      [] OTHER -> evt

\* legacyBefore._prevented: _makeEvent defines no such field and no method
\* of the event sets it
_prevented(evt) == FALSE

(***************************************************************************)
(* Operation Scheduler: the synchronous part of _debouncedWrite and        *)
(* _debouncedRead, and the timers.                                         *)
(***************************************************************************)
\* one call of the public API and the promise it returned; joined records
\* whether the call arrived while the timer of its kind was armed. from is the
\* Intent whose listener made the call (0: the application), suppress whether
\* that listener had called evt.preventChain() before.
NewCall(op, d, joined) ==
    [op |-> op, data |-> d, joined |-> joined, st |-> "pending", val |-> Undefined,
     from |-> 0, suppress |-> FALSE]

\* JoinPending with a fresh record made for every call
JoinPendingFresh(pw, incomingData, replace, op, c) ==
    [set |-> TRUE, data |-> incomingData, replace |-> replace, op |-> op,
     resolvers |-> <<c>>]

\* JoinPending with the payloads of the window merged
JoinPendingMergeAll(pw, incomingData, replace, op, c) ==
    [set |-> TRUE,
     data |-> IF pw.set THEN _deepMerge(pw.data, incomingData) ELSE incomingData,
     replace |-> replace, op |-> op,
     resolvers |-> Append(pw.resolvers, c)]

\* JoinPending with the payload and the options of the first call kept
JoinPendingKeepFirst(pw, incomingData, replace, op, c) ==
    [set |-> TRUE,
     data |-> IF pw.set THEN pw.data ELSE incomingData,
     replace |-> IF pw.set THEN pw.replace ELSE replace,
     op |-> IF pw.set THEN pw.op ELSE op,
     resolvers |-> Append(pw.resolvers, c)]

\* this._pendingWrite after one more call: the payload and the options are
\* overwritten, the caller's resolver is pushed
JoinPending(pw, incomingData, replace, op, c) ==
    [set |-> TRUE, data |-> incomingData, replace |-> replace, op |-> op,
     resolvers |-> Append(pw.resolvers, c)]

_debouncedWrite(incomingData, replace, op) ==
    /\ ipc = "ready"
    /\ Len(calls) < MaxCalls
    /\ calls' = Append(calls, NewCall(op, incomingData, writeTimer))
    /\ pendingWrite' = JoinPending(pendingWrite, incomingData, replace, op, Len(calls) + 1)
    /\ writeTimer' = TRUE
    /\ UNCHANGED <<data, file, snapshot, pendingRead, readTimer, intents, chainTail,
                   isWriting, suppressWatchEvents, fsEvent, schedule, rpc, oldRuntime,
                   diskSnapshot, changeLog, watcherErrors, lastIO, extDiff, nExt, nFind, listening, ipc, lowdb, args, result, closed>>
    /\ UNCHANGED lockVars

\* write(partial)
Write ==
    \E d \in WritePayloads : _debouncedWrite(d, FALSE, "write")

\* replace(full)
Replace ==
    \E d \in ReplacePayloads : _debouncedWrite(d, TRUE, "replace")

\* resetDefault()
ResetDefault ==
    _debouncedWrite(_cloneSafe(defaultData), TRUE, "resetDefault")

\* read(), getAll()
Read ==
    /\ ipc = "ready"
    /\ Len(calls) < MaxCalls
    /\ calls' = Append(calls, NewCall("read", Undefined, readTimer))
    /\ pendingRead' = [set |-> TRUE,
                       resolvers |-> Append(pendingRead.resolvers, Len(calls) + 1)]
    /\ readTimer' = TRUE
    /\ UNCHANGED <<data, file, snapshot, pendingWrite, writeTimer, intents, chainTail,
                   isWriting, suppressWatchEvents, fsEvent, schedule, rpc, oldRuntime,
                   diskSnapshot, changeLog, watcherErrors, lastIO, extDiff, nExt, nFind, listening, ipc, lowdb, args, result, closed>>
    /\ UNCHANGED lockVars

\* One detached pending record and the callback chained for it. pc is the
\* callback's position; oldData, proposed, the events, chosen are its locals.
\* err is the error the catch block received. History kept for the
\* properties: proposed0 (proposed before any listener),
\* file0 and snapshot0 (the file and the Disk Snapshot when the callback
\* started), wbuf (what _low.write() was given), nAcq (lock acquisitions),
\* nWrites (calls of _low.write()), nStored (those that stored), nChange
\* ('change' dispatched), outcome.
\* A listener of the canonical pre-event is part of the callback:
\* chainPrevented is evt.chainPrevented of that event, waitFor the call whose
\* promise the listener awaits (0: none). Where the loop of _emitSequential
\* is followed listener by listener: listeners is the copy of the listener
\* list it iterates, todo the listeners not called yet, running the listener
\* whose promise is awaited, listenerError the length of evt._listenerError,
\* log the calls and returns of the listeners in the order they happened.
NewIntent(kind, d, replace, op, resolvers, prev) ==
    [kind |-> kind, data |-> d, replace |-> replace, op |-> op,
     resolvers |-> resolvers, pc |-> "queued", prev |-> prev,
     oldData |-> Undefined, proposed |-> Undefined, proposed0 |-> Undefined,
     file0 |-> Undefined, snapshot0 |-> Undefined,
     evP |-> NoEvt, evB |-> NoEvt, evW |-> NoEvt,
     chosen |-> Undefined, wbuf |-> Undefined, ioErr |-> FALSE, err |-> Undefined,
     outcome |-> "none", nAcq |-> 0, nWrites |-> 0, nStored |-> 0, nChange |-> 0,
     waitFor |-> 0, chainPrevented |-> FALSE,
     listeners |-> <<>>, todo |-> <<>>, running |-> "none", log |-> <<>>,
     listenerError |-> 0]

\* the write timer fires: the pending Intent is detached and chained
WriteTimerFires ==
    /\ writeTimer
    /\ intents' = Append(intents, NewIntent("write", pendingWrite.data,
                     pendingWrite.replace, pendingWrite.op, pendingWrite.resolvers,
                     chainTail))
    /\ chainTail' = Len(intents) + 1
    /\ pendingWrite' = NoPendingWrite
    /\ writeTimer' = FALSE
    /\ UNCHANGED <<data, file, snapshot, pendingRead, readTimer, calls,
                   isWriting, suppressWatchEvents, fsEvent, schedule, rpc, oldRuntime,
                   diskSnapshot, changeLog, watcherErrors, lastIO, extDiff, nExt, nFind, listening, ipc, lowdb, args, result, closed>>
    /\ UNCHANGED lockVars

\* the read timer fires
ReadTimerFires ==
    /\ readTimer
    /\ intents' = Append(intents, NewIntent("read", Undefined, FALSE, "read",
                     pendingRead.resolvers, chainTail))
    /\ chainTail' = Len(intents) + 1
    /\ pendingRead' = NoPendingRead
    /\ readTimer' = FALSE
    /\ UNCHANGED <<data, file, snapshot, pendingWrite, writeTimer, calls,
                   isWriting, suppressWatchEvents, fsEvent, schedule, rpc, oldRuntime,
                   diskSnapshot, changeLog, watcherErrors, lastIO, extDiff, nExt, nFind, listening, ipc, lowdb, args, result, closed>>
    /\ UNCHANGED lockVars

\* ChainReady without the chain: the callback runs as soon as its timer fired
ChainReadyNoWait(i) ==
    /\ intents[i].pc = "queued"

\* ChainReady with one chain for the reads and one for the writes
ChainReadySameClass(i) ==
    /\ intents[i].pc = "queued"
    /\ \A j \in 1..(i - 1) :
          intents[j].kind = intents[i].kind => intents[j].pc = "done"

\* ChainReady on a chain that a failed callback leaves rejected
ChainReadyAfterSuccess(i) ==
    /\ intents[i].pc = "queued"
    /\ IF intents[i].prev = 0 THEN TRUE
       ELSE /\ intents[intents[i].prev].pc = "done"
            /\ intents[intents[i].prev].outcome # "rejected"

\* this._chain.then(...): the callback runs once the promise it was chained to
\* has settled
ChainReady(i) ==
    /\ intents[i].pc = "queued"
    /\ IF intents[i].prev = 0 THEN TRUE ELSE intents[intents[i].prev].pc = "done"

\* Settle calling the resolver pushed last only
SettleLast(resolvers, st, v) ==
    [c \in DOMAIN calls |->
        IF resolvers # <<>> /\ resolvers[Len(resolvers)] = c
        THEN [calls[c] EXCEPT !.st = st, !.val = v]
        ELSE calls[c]]

\* for (const r of pending.resolvers) r(v) / for (const rej of pending.rejecters) rej(err)
Settle(resolvers, st, v) ==
    [c \in DOMAIN calls |->
        IF \E j \in DOMAIN resolvers : resolvers[j] = c
        THEN [calls[c] EXCEPT !.st = st, !.val = v]
        ELSE calls[c]]

\* _canEmit: no event on this._activeEventStack has chainPrevented set. The
\* canonical pre-event of an Intent is on the stack while its listeners run.
_canEmit ==
    \A i \in DOMAIN intents :
        ~(intents[i].pc = "prePrimary" /\ intents[i].chainPrevented)

\* _emitSequential: if (res && typeof res.then === 'function') await res;
\* the listener's promise settles once the promise it awaits has settled
HookReturned(i) ==
    /\ intents[i].todo = <<>>
    /\ intents[i].running = "none"
    /\ IF intents[i].waitFor = 0 THEN TRUE
       ELSE calls[intents[i].waitFor].st # "pending"

(***************************************************************************)
(* _emitSequential, one action per listener call and per await.            *)
(***************************************************************************)
\* what a registered listener does: mutate newData, cancel, throw, return a
\* promise that resolves later, return a promise that rejects later
Behaviours == {"set", "preventDefault", "throw", "async", "asyncReject"}
NListeners == 2
ListenerLists == [1..NListeners -> Behaviours]

\* the listeners left after one threw, had the loop no try/catch inside
AfterThrowAbort(todo) == <<>>

\* the listeners left after one threw: the catch is inside the loop
AfterThrow(todo) == Tail(todo)

\* the next listener is called whatever the last one returned
ListenerIdleNoAwait(it) == TRUE

\* if (res && typeof res.then === 'function') await res
ListenerIdle(it) == it.running = "none"

\* const listeners = this._ee.listeners(name).slice(); push(evt)
EmitBegin(i) ==
    /\ intents[i].pc = "prePrimary"
    /\ intents[i].listeners = <<>>
    /\ intents[i].waitFor = 0
    /\ \E ls \in ListenerLists :
          intents' = [intents EXCEPT ![i] = [@ EXCEPT !.listeners = ls, !.todo = ls]]
    /\ UNCHANGED <<data, file, snapshot, pendingWrite, writeTimer, pendingRead,
                   readTimer, calls, chainTail, isWriting, suppressWatchEvents,
                   fsEvent, schedule, rpc, oldRuntime, diskSnapshot, changeLog,
                   watcherErrors, lastIO, extDiff, nExt, nFind, listening, ipc, lowdb, args, result, closed>>
    /\ UNCHANGED lockVars

\* const res = l(evt): the synchronous part of the next listener. A throw is
\* caught and pushed on evt._listenerError; a thenable is awaited.
EmitCall(i) ==
    /\ intents[i].pc = "prePrimary"
    /\ intents[i].todo # <<>>
    /\ ListenerIdle(intents[i])
    /\ LET it == intents[i]
           b == Head(it.todo)
           k == Len(it.listeners) - Len(it.todo) + 1
       IN intents' = [intents EXCEPT ![i] =
             CASE b = "throw" ->
                    [it EXCEPT !.todo = AfterThrow(it.todo),
                               !.listenerError = @ + 1,
                               !.log = @ \o << <<"call", k>>, <<"return", k>> >>]
               [] b \in {"async", "asyncReject"} ->
                    [it EXCEPT !.todo = Tail(it.todo), !.running = b,
                               !.log = Append(@, <<"call", k>>)]
               [] OTHER ->
                    [it EXCEPT !.todo = Tail(it.todo),
                               !.evP = _emitSequential(b, it.evP),
                               !.log = @ \o << <<"call", k>>, <<"return", k>> >>]]
    /\ UNCHANGED <<data, file, snapshot, pendingWrite, writeTimer, pendingRead,
                   readTimer, calls, chainTail, isWriting, suppressWatchEvents,
                   fsEvent, schedule, rpc, oldRuntime, diskSnapshot, changeLog,
                   watcherErrors, lastIO, extDiff, nExt, nFind, listening, ipc, lowdb, args, result, closed>>
    /\ UNCHANGED lockVars

\* await res: the listener's promise settles; a rejection is caught and
\* pushed on evt._listenerError
EmitSettle(i) ==
    /\ intents[i].pc = "prePrimary"
    /\ intents[i].running # "none"
    /\ LET it == intents[i]
           k == Len(it.listeners) - Len(it.todo)
       IN intents' = [intents EXCEPT ![i] =
             [it EXCEPT !.running = "none",
                        !.listenerError = IF it.running = "asyncReject" THEN @ + 1 ELSE @,
                        !.log = Append(@, <<"return", k>>)]]
    /\ UNCHANGED <<data, file, snapshot, pendingWrite, writeTimer, pendingRead,
                   readTimer, calls, chainTail, isWriting, suppressWatchEvents,
                   fsEvent, schedule, rpc, oldRuntime, diskSnapshot, changeLog,
                   watcherErrors, lastIO, extDiff, nExt, nFind, listening, ipc, lowdb, args, result, closed>>
    /\ UNCHANGED lockVars

\* A listener of the canonical pre-event of Intent i calls read() on the same
\* instance, after evt.preventChain() or not, and awaits the promise or not.
HookCallsRead(i) ==
    /\ listening
    /\ intents[i].pc = "prePrimary"
    /\ intents[i].waitFor = 0
    /\ intents[i].listeners = <<>>
    /\ ~intents[i].chainPrevented
    /\ Len(calls) < MaxCalls
    /\ \E prevent \in BOOLEAN, awaited \in BOOLEAN :
          /\ calls' = Append(calls, [NewCall("read", Undefined, readTimer)
                                      EXCEPT !.from = i, !.suppress = prevent])
          /\ intents' = [intents EXCEPT ![i] =
                           [@ EXCEPT !.chainPrevented = prevent,
                                     !.waitFor = IF awaited THEN Len(calls) + 1 ELSE 0]]
    /\ pendingRead' = [set |-> TRUE,
                       resolvers |-> Append(pendingRead.resolvers, Len(calls) + 1)]
    /\ readTimer' = TRUE
    /\ UNCHANGED <<data, file, snapshot, pendingWrite, writeTimer, chainTail,
                   isWriting, suppressWatchEvents, fsEvent, schedule, rpc, oldRuntime,
                   diskSnapshot, changeLog, watcherErrors, lastIO, extDiff, nExt, nFind, listening, ipc, lowdb, args, result, closed>>
    /\ UNCHANGED lockVars

\* A listener of the canonical pre-event of Intent i calls evt.preventChain()
\* and goes on waiting for something of its own before it returns.
HookPreventsChain(i) ==
    /\ listening
    /\ intents[i].pc = "prePrimary"
    /\ intents[i].waitFor = 0
    /\ intents[i].listeners = <<>>
    /\ ~intents[i].chainPrevented
    /\ intents' = [intents EXCEPT ![i] = [@ EXCEPT !.chainPrevented = TRUE]]
    /\ UNCHANGED <<data, file, snapshot, pendingWrite, writeTimer, pendingRead,
                   readTimer, calls, chainTail, isWriting, suppressWatchEvents,
                   fsEvent, schedule, rpc, oldRuntime, diskSnapshot, changeLog,
                   watcherErrors, lastIO, extDiff, nExt, nFind, listening, ipc, lowdb, args, result, closed>>
    /\ UNCHANGED lockVars

(***************************************************************************)
(* A write Intent on the chain (_debouncedWrite, the chained callback).    *)
(***************************************************************************)
\* Proposed with the payload taken as the whole Document in either mode
ProposedNoMerge(cur, d, replace) ==
    IF d = Undefined THEN _cloneSafe(cur) ELSE _cloneSafe(d)

\* the proposed Document of a write Intent
Proposed(cur, d, replace) ==
    IF d = Undefined THEN _cloneSafe(cur)
    ELSE IF replace THEN _cloneSafe(d)
    ELSE _deepMerge(_cloneSafe(cur), d)

\* oldData, proposed; if (this._canEmit()) the canonical pre-event ('write' or
\* 'replace') is dispatched, otherwise proposed is installed at once and
\* _acquireLock is entered
WStart(i) ==
    /\ intents[i].kind = "write"
    /\ ChainReady(i)
    /\ LET prop == Proposed(data, intents[i].data, intents[i].replace)
           it == [intents[i] EXCEPT !.oldData = _cloneSafe(data),
                                    !.proposed = prop, !.proposed0 = prop,
                                    !.file0 = file, !.snapshot0 = snapshot]
       IN IF _canEmit
          THEN /\ intents' = [intents EXCEPT ![i] =
                                [it EXCEPT !.pc = "prePrimary",
                                           !.evP = _makeEvent(prop)]]
               /\ UNCHANGED <<data, lpc>>
          ELSE /\ intents' = [intents EXCEPT ![i] = [it EXCEPT !.pc = "acquire"]]
               /\ data' = _cloneSafe(prop)
               /\ lpc' = [lpc EXCEPT ![Self] = "open"]
    /\ UNCHANGED <<file, snapshot, pendingWrite, writeTimer, pendingRead,
                   readTimer, calls, chainTail, isWriting, suppressWatchEvents,
                   fsEvent, schedule, rpc, oldRuntime, diskSnapshot, changeLog, watcherErrors, lastIO, extDiff,
                   nExt, nFind, listening, ipc, lowdb, args, result, closed>>
    /\ UNCHANGED <<marker, heldLockHandle>>

\* its listeners have run; the legacy 'beforewrite' is dispatched
WPrimaryDone(i) ==
    /\ intents[i].kind = "write"
    /\ intents[i].pc = "prePrimary"
    /\ HookReturned(i)
    /\ \E h \in WriteHookActs :
          intents' = [intents EXCEPT ![i] =
                        [@ EXCEPT !.pc = "preBefore",
                                  !.evP = _emitSequential(h, intents[i].evP),
                                  !.evB = _makeEvent(intents[i].proposed)]]
    /\ UNCHANGED <<data, file, snapshot, pendingWrite, writeTimer, pendingRead,
                   readTimer, calls, chainTail, isWriting, suppressWatchEvents,
                   fsEvent, schedule, rpc, oldRuntime, diskSnapshot, changeLog, watcherErrors, lastIO, extDiff,
                   nExt, nFind, listening, ipc, lowdb, args, result, closed>>
    /\ UNCHANGED lockVars

\* WritePrevented looking at the legacy events only
WritePreventedLegacyOnly(it) ==
    \/ _prevented(it.evB)
    \/ it.replace /\ it.evW.defaultPrevented

\* if (primaryEvt.defaultPrevented || legacyBefore._prevented || legacyWritePre.defaultPrevented)
WritePrevented(it) ==
    \/ it.evP.defaultPrevented
    \/ _prevented(it.evB)
    \/ it.replace /\ it.evW.defaultPrevented

\* const chosen = ...
Chosen(it) ==
    IF it.evP.result # Undefined THEN it.evP.result
    ELSE IF it.replace /\ it.evW.result # Undefined THEN it.evW.result
    ELSE it.evB.result

\* After the pre-events. Cancelled: the legacy 'afterwrite' is dispatched and
\* nothing else is done. Otherwise proposed = primaryEvt.newData is installed
\* as this._low.data and _acquireLock is entered.
WDecide(i, it) ==
    IF WritePrevented(it)
    THEN /\ intents' = [intents EXCEPT ![i] =
                          [it EXCEPT !.pc = "cancelAfter", !.chosen = Chosen(it)]]
         /\ UNCHANGED <<data, lpc>>
    ELSE /\ intents' = [intents EXCEPT ![i] =
                          [it EXCEPT !.pc = "acquire",
                                     !.proposed = _cloneSafe(it.evP.newData)]]
         /\ data' = _cloneSafe(it.evP.newData)
         /\ lpc' = [lpc EXCEPT ![Self] = "open"]

\* WBeforeDone without the compatibility 'write' pre-event of a replace
WBeforeDoneNoCompat(i) ==
    /\ intents[i].kind = "write"
    /\ intents[i].pc = "preBefore"
    /\ \E h \in WriteHookActs :
          LET it == [intents[i] EXCEPT !.evB = _emitSequential(h, intents[i].evB)]
          IN WDecide(i, it)
    /\ UNCHANGED <<file, snapshot, pendingWrite, writeTimer, pendingRead,
                   readTimer, calls, chainTail, isWriting, suppressWatchEvents,
                   fsEvent, schedule, rpc, oldRuntime, diskSnapshot, changeLog, watcherErrors, lastIO, extDiff,
                   nExt, nFind, listening, ipc, lowdb, args, result, closed>>
    /\ UNCHANGED <<marker, heldLockHandle>>

\* the 'beforewrite' listeners have run; a replace operation also dispatches
\* a 'write' pre-event
WBeforeDone(i) ==
    /\ intents[i].kind = "write"
    /\ intents[i].pc = "preBefore"
    /\ \E h \in WriteHookActs :
          LET it == [intents[i] EXCEPT !.evB = _emitSequential(h, intents[i].evB)]
          IN IF it.replace
             THEN /\ intents' = [intents EXCEPT ![i] =
                                   [it EXCEPT !.pc = "preCompat",
                                              !.evW = _makeEvent(it.evP.newData)]]
                  /\ UNCHANGED <<data, lpc>>
             ELSE WDecide(i, it)
    /\ UNCHANGED <<file, snapshot, pendingWrite, writeTimer, pendingRead,
                   readTimer, calls, chainTail, isWriting, suppressWatchEvents,
                   fsEvent, schedule, rpc, oldRuntime, diskSnapshot, changeLog, watcherErrors, lastIO, extDiff,
                   nExt, nFind, listening, ipc, lowdb, args, result, closed>>
    /\ UNCHANGED <<marker, heldLockHandle>>

\* the listeners of the compatibility 'write' pre-event have run
WCompatDone(i) ==
    /\ intents[i].kind = "write"
    /\ intents[i].pc = "preCompat"
    /\ \E h \in WriteHookActs :
          WDecide(i, [intents[i] EXCEPT !.evW = _emitSequential(h, intents[i].evW)])
    /\ UNCHANGED <<file, snapshot, pendingWrite, writeTimer, pendingRead,
                   readTimer, calls, chainTail, isWriting, suppressWatchEvents,
                   fsEvent, schedule, rpc, oldRuntime, diskSnapshot, changeLog, watcherErrors, lastIO, extDiff,
                   nExt, nFind, listening, ipc, lowdb, args, result, closed>>
    /\ UNCHANGED <<marker, heldLockHandle>>

\* cancelled: for (const r of pending.resolvers) r(chosen)
WCancelSettle(i) ==
    /\ intents[i].kind = "write"
    /\ intents[i].pc = "cancelAfter"
    /\ calls' = Settle(intents[i].resolvers, "resolved", intents[i].chosen)
    /\ intents' = [intents EXCEPT ![i] =
                     [@ EXCEPT !.pc = "done", !.outcome = "cancelled",
                               !.evB = NoEvt, !.evW = NoEvt]]
    /\ UNCHANGED <<data, file, snapshot, pendingWrite, writeTimer, pendingRead,
                   readTimer, chainTail, isWriting, suppressWatchEvents,
                   fsEvent, schedule, rpc, oldRuntime, diskSnapshot, changeLog, watcherErrors, lastIO, extDiff,
                   nExt, nFind, listening, ipc, lowdb, args, result, closed>>
    /\ UNCHANGED lockVars

\* _acquireLock returned: the two flags are set and this._low.write() is
\* called, which serialises this._low.data
WLockAcquired(i) ==
    /\ intents[i].kind = "write"
    /\ intents[i].pc = "acquire"
    /\ lpc[Self] = "held"
    /\ isWriting' = TRUE
    /\ suppressWatchEvents' = TRUE
    /\ intents' = [intents EXCEPT ![i] =
                     [@ EXCEPT !.pc = "writing", !.wbuf = data,
                               !.nAcq = @ + 1, !.nWrites = @ + 1,
                               !.evB = NoEvt, !.evW = NoEvt]]
    /\ UNCHANGED <<data, file, snapshot, pendingWrite, writeTimer, pendingRead,
                   readTimer, calls, chainTail, fsEvent, schedule, rpc, oldRuntime,
                   diskSnapshot, changeLog, watcherErrors, lastIO, extDiff, nExt, nFind, listening, ipc, lowdb, args, result, closed>>
    /\ UNCHANGED lockVars

\* _acquireLock threw the timeout: the catch block clears the flags and
\* calls _releaseLock
WLockTimeout(i) ==
    /\ intents[i].kind = "write"
    /\ intents[i].pc = "acquire"
    /\ lpc[Self] = "failed"
    /\ isWriting' = FALSE
    /\ suppressWatchEvents' = FALSE
    /\ intents' = [intents EXCEPT ![i] =
                     [@ EXCEPT !.pc = "relCatch", !.err = LockTimeoutError,
                               !.evB = NoEvt, !.evW = NoEvt]]
    /\ lpc' = [lpc EXCEPT ![Self] = "idle"]
    /\ UNCHANGED <<data, file, snapshot, pendingWrite, writeTimer, pendingRead,
                   readTimer, calls, chainTail, fsEvent, schedule, rpc, oldRuntime,
                   diskSnapshot, changeLog, watcherErrors, lastIO, extDiff, nExt, nFind, listening, ipc, lowdb, args, result, closed>>
    /\ UNCHANGED <<marker, heldLockHandle>>

\* this._low.write() completed: the Disk Snapshot is taken from this._low.data;
\* finally: the flags are cleared and _releaseLock is called
WWriteOk(i) ==
    /\ intents[i].kind = "write"
    /\ intents[i].pc = "writing"
    /\ file' = intents[i].wbuf
    /\ lastIO' = intents[i].wbuf
    /\ snapshot' = _cloneSafe(data)
    /\ fsEvent' = TRUE
    /\ isWriting' = FALSE
    /\ suppressWatchEvents' = FALSE
    /\ intents' = [intents EXCEPT ![i] =
                     [@ EXCEPT !.pc = "relFinally", !.nStored = @ + 1]]
    /\ UNCHANGED <<data, pendingWrite, writeTimer, pendingRead, readTimer, calls,
                   chainTail, schedule, rpc, oldRuntime, diskSnapshot, changeLog, watcherErrors, extDiff, nExt,
                   nFind, listening, ipc, lowdb, args, result, closed>>
    /\ UNCHANGED lockVars

\* this._low.write() threw an I/O error; finally as above
WWriteFail(i) ==
    /\ intents[i].kind = "write"
    /\ intents[i].pc = "writing"
    /\ isWriting' = FALSE
    /\ suppressWatchEvents' = FALSE
    /\ intents' = [intents EXCEPT ![i] =
                     [@ EXCEPT !.pc = "relFinally", !.ioErr = TRUE, !.err = IOError]]
    /\ UNCHANGED <<data, file, snapshot, pendingWrite, writeTimer, pendingRead,
                   readTimer, calls, chainTail, fsEvent, schedule, rpc, oldRuntime,
                   diskSnapshot, changeLog, watcherErrors, lastIO, extDiff, nExt, nFind, listening, ipc, lowdb, args, result, closed>>
    /\ UNCHANGED lockVars

\* the _releaseLock of the finally block is through; then either the catch
\* block (flags, _releaseLock again) or the legacy 'afterwrite' dispatch
WFinallyReleased(i) ==
    /\ intents[i].kind = "write"
    /\ intents[i].pc = "relFinally"
    /\ marker' = _releaseLock(marker, heldLockHandle[Self])
    /\ heldLockHandle' = [heldLockHandle EXCEPT ![Self] = FALSE]
    /\ lpc' = [lpc EXCEPT ![Self] = "idle"]
    /\ intents' = [intents EXCEPT ![i] =
                     [@ EXCEPT !.pc = IF intents[i].ioErr THEN "relCatch"
                                      ELSE "postAfter"]]
    /\ UNCHANGED <<data, file, snapshot, pendingWrite, writeTimer, pendingRead,
                   readTimer, calls, chainTail, isWriting, suppressWatchEvents,
                   fsEvent, schedule, rpc, oldRuntime, diskSnapshot, changeLog, watcherErrors, lastIO, extDiff,
                   nExt, nFind, listening, ipc, lowdb, args, result, closed>>

\* WCatchReleased leaving the callers alone
WCatchReleasedNoReject(i) ==
    /\ intents[i].kind = "write"
    /\ intents[i].pc = "relCatch"
    /\ marker' = _releaseLock(marker, heldLockHandle[Self])
    /\ heldLockHandle' = [heldLockHandle EXCEPT ![Self] = FALSE]
    /\ intents' = [intents EXCEPT ![i] =
                     [@ EXCEPT !.pc = "done", !.outcome = "rejected"]]
    /\ UNCHANGED <<data, file, snapshot, pendingWrite, writeTimer, pendingRead,
                   readTimer, calls, chainTail, isWriting, suppressWatchEvents,
                   fsEvent, schedule, rpc, oldRuntime, diskSnapshot, changeLog, watcherErrors, lastIO, extDiff,
                   nExt, nFind, listening, ipc, lowdb, args, result, closed>>
    /\ UNCHANGED lpc

\* the _releaseLock of the catch block is through; every caller is rejected
WCatchReleased(i) ==
    /\ intents[i].kind = "write"
    /\ intents[i].pc = "relCatch"
    /\ marker' = _releaseLock(marker, heldLockHandle[Self])
    /\ heldLockHandle' = [heldLockHandle EXCEPT ![Self] = FALSE]
    /\ calls' = Settle(intents[i].resolvers, "rejected", intents[i].err)
    /\ intents' = [intents EXCEPT ![i] =
                     [@ EXCEPT !.pc = "done", !.outcome = "rejected"]]
    /\ UNCHANGED <<data, file, snapshot, pendingWrite, writeTimer, pendingRead,
                   readTimer, chainTail, isWriting, suppressWatchEvents,
                   fsEvent, schedule, rpc, oldRuntime, diskSnapshot, changeLog, watcherErrors, lastIO, extDiff,
                   nExt, nFind, listening, ipc, lowdb, args, result, closed>>
    /\ UNCHANGED lpc

\* the 'afterwrite' listeners have run; the 'change' notification is
\* dispatched if a top-level key differs, else the callers are resolved
WAfterDone(i) ==
    /\ intents[i].kind = "write"
    /\ intents[i].pc = "postAfter"
    /\ IF _computeTopLevelChanges(intents[i].oldData, intents[i].proposed) # {}
       THEN /\ changeLog' = Append(changeLog,
                    [source |-> "internal", by |-> i,
                     changes |-> Changes(intents[i].oldData, intents[i].proposed)])
            /\ intents' = [intents EXCEPT ![i] =
                             [@ EXCEPT !.pc = "postChange", !.nChange = @ + 1]]
            /\ UNCHANGED calls
       ELSE /\ calls' = Settle(intents[i].resolvers, "resolved", Undefined)
            /\ intents' = [intents EXCEPT ![i] =
                             [@ EXCEPT !.pc = "done", !.outcome = "resolved"]]
            /\ UNCHANGED changeLog
    /\ UNCHANGED <<data, file, snapshot, pendingWrite, writeTimer, pendingRead,
                   readTimer, chainTail, isWriting, suppressWatchEvents,
                   fsEvent, schedule, rpc, oldRuntime, diskSnapshot, watcherErrors, lastIO, extDiff, nExt, nFind, listening, ipc, lowdb, args, result, closed>>
    /\ UNCHANGED lockVars

\* the 'change' listeners have run: for (const r of pending.resolvers) r()
WChangeDone(i) ==
    /\ intents[i].kind = "write"
    /\ intents[i].pc = "postChange"
    /\ calls' = Settle(intents[i].resolvers, "resolved", Undefined)
    /\ intents' = [intents EXCEPT ![i] =
                     [@ EXCEPT !.pc = "done", !.outcome = "resolved"]]
    /\ UNCHANGED <<data, file, snapshot, pendingWrite, writeTimer, pendingRead,
                   readTimer, chainTail, isWriting, suppressWatchEvents,
                   fsEvent, schedule, rpc, oldRuntime, diskSnapshot, changeLog, watcherErrors, lastIO, extDiff,
                   nExt, nFind, listening, ipc, lowdb, args, result, closed>>
    /\ UNCHANGED lockVars
(***************************************************************************)
(* A read Intent on the chain (_debouncedRead, the chained callback).      *)
(***************************************************************************)
\* old; if (this._canEmit()) the canonical pre-read 'read' event is
\* dispatched, otherwise this._low.read() is called at once
RStart(i) ==
    /\ intents[i].kind = "read"
    /\ ChainReady(i)
    /\ intents' = [intents EXCEPT ![i] =
                     IF _canEmit
                     THEN [@ EXCEPT !.pc = "prePrimary", !.oldData = _cloneSafe(data),
                                    !.evP = _makeEvent(data)]
                     ELSE [@ EXCEPT !.pc = "reading", !.oldData = _cloneSafe(data)]]
    /\ UNCHANGED <<data, file, snapshot, pendingWrite, writeTimer, pendingRead,
                   readTimer, calls, chainTail, isWriting, suppressWatchEvents,
                   fsEvent, schedule, rpc, oldRuntime, diskSnapshot, changeLog, watcherErrors, lastIO,
                   extDiff, nExt, nFind, listening, ipc, lowdb, args, result, closed>>
    /\ UNCHANGED lockVars

\* its listeners have run; the legacy 'beforeread' is dispatched
RPrimaryDone(i) ==
    /\ intents[i].kind = "read"
    /\ intents[i].pc = "prePrimary"
    /\ HookReturned(i)
    /\ \E h \in ReadHookActs :
          intents' = [intents EXCEPT ![i] =
                        [@ EXCEPT !.pc = "preBefore",
                                  !.evP = _emitSequential(h, intents[i].evP),
                                  !.evB = _makeEvent(intents[i].oldData)]]
    /\ UNCHANGED <<data, file, snapshot, pendingWrite, writeTimer, pendingRead,
                   readTimer, calls, chainTail, isWriting, suppressWatchEvents,
                   fsEvent, schedule, rpc, oldRuntime, diskSnapshot, changeLog, watcherErrors, lastIO,
                   extDiff, nExt, nFind, listening, ipc, lowdb, args, result, closed>>
    /\ UNCHANGED lockVars

\* the 'beforeread' listeners have run: cancelled (the legacy 'afterread' is
\* dispatched), or this._low.read() is called
RBeforeDone(i) ==
    /\ intents[i].kind = "read"
    /\ intents[i].pc = "preBefore"
    /\ \E h \in ReadHookActs :
          LET it == [intents[i] EXCEPT !.evB = _emitSequential(h, intents[i].evB)]
          IN intents' = [intents EXCEPT ![i] =
                IF it.evP.defaultPrevented \/ _prevented(it.evB)
                THEN [it EXCEPT !.pc = "cancelAfter",
                                !.chosen = IF it.evP.result # Undefined
                                           THEN it.evP.result ELSE it.evB.result,
                                !.evB = NoEvt]
                ELSE [it EXCEPT !.pc = "reading", !.evB = NoEvt]]
    /\ UNCHANGED <<data, file, snapshot, pendingWrite, writeTimer, pendingRead,
                   readTimer, calls, chainTail, isWriting, suppressWatchEvents,
                   fsEvent, schedule, rpc, oldRuntime, diskSnapshot, changeLog, watcherErrors, lastIO,
                   extDiff, nExt, nFind, listening, ipc, lowdb, args, result, closed>>
    /\ UNCHANGED lockVars

\* cancelled: for (const r of pending.resolvers) r(clone(result))
RCancelSettle(i) ==
    /\ intents[i].kind = "read"
    /\ intents[i].pc = "cancelAfter"
    /\ calls' = Settle(intents[i].resolvers, "resolved", _cloneSafe(intents[i].chosen))
    /\ intents' = [intents EXCEPT ![i] =
                     [@ EXCEPT !.pc = "done", !.outcome = "cancelled"]]
    /\ UNCHANGED <<data, file, snapshot, pendingWrite, writeTimer, pendingRead,
                   readTimer, chainTail, isWriting, suppressWatchEvents,
                   fsEvent, schedule, rpc, oldRuntime, diskSnapshot, changeLog, watcherErrors, lastIO,
                   extDiff, nExt, nFind, listening, ipc, lowdb, args, result, closed>>
    /\ UNCHANGED lockVars

\* this._low.read() completed: this._low.data is the file's content, which is
\* also taken as the Disk Snapshot; the legacy 'afterread' is dispatched
RReadOk(i) ==
    /\ intents[i].kind = "read"
    /\ intents[i].pc = "reading"
    /\ data' = LowRead(data, file)
    /\ snapshot' = _cloneSafe(LowRead(data, file))
    /\ lastIO' = LowRead(data, file)
    /\ intents' = [intents EXCEPT ![i] =
                     [@ EXCEPT !.pc = "postAfter",
                               !.chosen = _cloneSafe(LowRead(data, file))]]
    /\ UNCHANGED <<file, pendingWrite, writeTimer, pendingRead,
                   readTimer, calls, chainTail, isWriting, suppressWatchEvents,
                   fsEvent, schedule, rpc, oldRuntime, diskSnapshot, changeLog, watcherErrors,
                   extDiff, nExt, nFind, listening, ipc, lowdb, args, result, closed>>
    /\ UNCHANGED lockVars

\* this._low.read() threw: for (const rej of pending.rejecters) rej(err)
RReadFail(i) ==
    /\ intents[i].kind = "read"
    /\ intents[i].pc = "reading"
    /\ calls' = Settle(intents[i].resolvers, "rejected", IOError)
    /\ intents' = [intents EXCEPT ![i] =
                     [@ EXCEPT !.pc = "done", !.outcome = "rejected",
                               !.ioErr = TRUE, !.err = IOError]]
    /\ UNCHANGED <<data, file, snapshot, pendingWrite, writeTimer, pendingRead,
                   readTimer, chainTail, isWriting, suppressWatchEvents,
                   fsEvent, schedule, rpc, oldRuntime, diskSnapshot, changeLog, watcherErrors, lastIO,
                   extDiff, nExt, nFind, listening, ipc, lowdb, args, result, closed>>
    /\ UNCHANGED lockVars

\* the 'afterread' listeners have run: every caller gets a clone of the snapshot
RAfterDone(i) ==
    /\ intents[i].kind = "read"
    /\ intents[i].pc = "postAfter"
    /\ calls' = Settle(intents[i].resolvers, "resolved", _cloneSafe(intents[i].chosen))
    /\ intents' = [intents EXCEPT ![i] =
                     [@ EXCEPT !.pc = "done", !.outcome = "resolved"]]
    /\ UNCHANGED <<data, file, snapshot, pendingWrite, writeTimer, pendingRead,
                   readTimer, chainTail, isWriting, suppressWatchEvents,
                   fsEvent, schedule, rpc, oldRuntime, diskSnapshot, changeLog, watcherErrors, lastIO,
                   extDiff, nExt, nFind, listening, ipc, lowdb, args, result, closed>>
    /\ UNCHANGED lockVars

\* findMatches: await this._low.read() ("Ensure latest on-disk content")
FindMatches ==
    /\ nFind < MaxFind
    /\ nFind' = nFind + 1
    /\ data' = file
    /\ lastIO' = file
    /\ UNCHANGED <<file, snapshot, pendingWrite, writeTimer, pendingRead,
                   readTimer, calls, intents, chainTail, isWriting,
                   suppressWatchEvents, fsEvent, schedule, rpc, oldRuntime,
                   diskSnapshot, changeLog, watcherErrors, extDiff, nExt, listening, ipc, lowdb, args, result, closed>>
    /\ UNCHANGED lockVars

(***************************************************************************)
(* Change Watcher (_startWatcher, _handleExternalFileChange).              *)
(***************************************************************************)
\* another program overwrites the backing file
ExtModify ==
    /\ nExt < MaxExt
    /\ \E d \in ExtDocs \cup {file} :
          /\ file' = d
          /\ extDiff' = IF _deepEqual(d, snapshot) THEN extDiff ELSE extDiff + 1
    /\ nExt' = nExt + 1
    /\ fsEvent' = TRUE
    /\ UNCHANGED <<data, snapshot, pendingWrite, writeTimer, pendingRead,
                   readTimer, calls, intents, chainTail, isWriting,
                   suppressWatchEvents, schedule, rpc, oldRuntime, diskSnapshot,
                   changeLog, watcherErrors, lastIO, nFind, listening, ipc, lowdb, args, result, closed>>
    /\ UNCHANGED lockVars

\* what an instance in another process submits with write(partial)
PeerPayload == Obj1("b", Scalar(1))

\* An instance in another process completes a merge write while the lock is
\* free: it takes the lock, writes its in-memory Document merged with its
\* payload, and releases. Its in-memory Document is what it read last: the
\* default data both instances started with, or what the file holds now.
PeerWrites ==
    /\ nExt < MaxExt
    /\ marker = NoMarker
    /\ \E base \in {defaultData, file} :
          /\ file' = _deepMerge(_cloneSafe(base), PeerPayload)
          /\ extDiff' = IF _deepEqual(_deepMerge(_cloneSafe(base), PeerPayload), snapshot)
                        THEN extDiff ELSE extDiff + 1
    /\ nExt' = nExt + 1
    /\ fsEvent' = TRUE
    /\ UNCHANGED <<data, snapshot, pendingWrite, writeTimer, pendingRead,
                   readTimer, calls, intents, chainTail, isWriting,
                   suppressWatchEvents, schedule, rpc, oldRuntime, diskSnapshot,
                   changeLog, watcherErrors, lastIO, nFind, listening, ipc, lowdb, args, result, closed>>
    /\ UNCHANGED lockVars

\* onFSChange: the watcher is closed and calls it no more, or it is dropped
\* while _suppressWatchEvents, else the debounce timer is (re)started
FsNotify ==
    /\ fsEvent
    /\ fsEvent' = FALSE
    /\ schedule' = IF suppressWatchEvents \/ closed.done THEN schedule ELSE TRUE
    /\ UNCHANGED <<data, file, snapshot, pendingWrite, writeTimer, pendingRead,
                   readTimer, calls, intents, chainTail, isWriting,
                   suppressWatchEvents, rpc, oldRuntime, diskSnapshot, changeLog, watcherErrors,
                   lastIO, extDiff, nExt, nFind, listening, ipc, lowdb, args, result, closed>>
    /\ UNCHANGED lockVars

\* the timer fires and _handleExternalFileChange starts: it returns at once
\* while a write is flagged, else takes oldRuntime and, if (this._canEmit()),
\* dispatches 'read'
WatchTimerFires ==
    /\ schedule
    /\ rpc = "idle"
    /\ schedule' = FALSE
    /\ IF isWriting \/ suppressWatchEvents
       THEN UNCHANGED <<rpc, oldRuntime>>
       ELSE /\ rpc' = IF _canEmit THEN "preRead" ELSE "reading"
            /\ oldRuntime' = _cloneSafe(data)
    /\ UNCHANGED <<data, file, snapshot, pendingWrite, writeTimer, pendingRead,
                   readTimer, calls, intents, chainTail, isWriting,
                   suppressWatchEvents, fsEvent, diskSnapshot, changeLog, watcherErrors,
                   lastIO, extDiff, nExt, nFind, listening, ipc, lowdb, args, result, closed>>
    /\ UNCHANGED lockVars

\* the 'read' listeners have run; 'beforeread' is dispatched
ReconPreReadDone ==
    /\ rpc = "preRead"
    /\ \E h \in ReadHookActs :
          rpc' = IF _emitSequential(h, NoEvt).defaultPrevented
                 THEN "preBeforePrevented" ELSE "preBefore"
    /\ UNCHANGED <<data, file, snapshot, pendingWrite, writeTimer, pendingRead,
                   readTimer, calls, intents, chainTail, isWriting,
                   suppressWatchEvents, fsEvent, schedule, oldRuntime, diskSnapshot,
                   changeLog, watcherErrors, lastIO, extDiff, nExt, nFind, listening, ipc, lowdb, args, result, closed>>
    /\ UNCHANGED lockVars

\* the 'beforeread' listeners have run: aborted by a listener, or
\* this._low.read() is called
ReconBeforeDone ==
    /\ rpc \in {"preBefore", "preBeforePrevented"}
    /\ IF rpc = "preBeforePrevented" \/ _prevented(NoEvt)
       THEN /\ rpc' = "idle"
            /\ oldRuntime' = Undefined
       ELSE /\ rpc' = "reading"
            /\ UNCHANGED oldRuntime
    /\ UNCHANGED <<data, file, snapshot, pendingWrite, writeTimer, pendingRead,
                   readTimer, calls, intents, chainTail, isWriting,
                   suppressWatchEvents, fsEvent, schedule, diskSnapshot,
                   changeLog, watcherErrors, lastIO, extDiff, nExt, nFind, listening, ipc, lowdb, args, result, closed>>
    /\ UNCHANGED lockVars

\* this._low.read() completed. Equal to the Disk Snapshot: the snapshot is
\* refreshed and that is all. Different: the content is adopted, the snapshot
\* updated and the legacy 'afterread' dispatched
ReconReadOk ==
    /\ rpc = "reading"
    /\ data' = file
    /\ lastIO' = file
    /\ snapshot' = _cloneSafe(file)
    /\ IF _deepEqual(file, snapshot)
       THEN /\ rpc' = "idle"
            /\ oldRuntime' = Undefined
            /\ UNCHANGED diskSnapshot
       ELSE /\ rpc' = "postAfter"
            /\ diskSnapshot' = _cloneSafe(file)
            /\ UNCHANGED oldRuntime
    /\ UNCHANGED <<file, pendingWrite, writeTimer, pendingRead,
                   readTimer, calls, intents, chainTail, isWriting,
                   suppressWatchEvents, fsEvent, schedule,
                   changeLog, watcherErrors, extDiff, nExt, nFind, listening, ipc, lowdb, args, result, closed>>
    /\ UNCHANGED lockVars

\* ReconReadFail with the Disk Snapshot forgotten
ReconReadFailDropsSnapshot ==
    /\ rpc = "reading"
    /\ rpc' = "idle"
    /\ oldRuntime' = Undefined
    /\ watcherErrors' = watcherErrors + 1
    /\ snapshot' = Undefined
    /\ UNCHANGED <<data, file, pendingWrite, writeTimer, pendingRead,
                   readTimer, calls, intents, chainTail, isWriting,
                   suppressWatchEvents, fsEvent, schedule, diskSnapshot,
                   changeLog, lastIO, extDiff, nExt, nFind, listening, ipc, lowdb, args, result, closed>>
    /\ UNCHANGED lockVars

\* this._low.read() threw: 'watcher:error' is emitted
ReconReadFail ==
    /\ rpc = "reading"
    /\ rpc' = "idle"
    /\ oldRuntime' = Undefined
    /\ watcherErrors' = watcherErrors + 1
    /\ UNCHANGED <<data, file, snapshot, pendingWrite, writeTimer, pendingRead,
                   readTimer, calls, intents, chainTail, isWriting,
                   suppressWatchEvents, fsEvent, schedule, diskSnapshot,
                   changeLog, lastIO, extDiff, nExt, nFind, listening, ipc, lowdb, args, result, closed>>
    /\ UNCHANGED lockVars

\* the 'afterread' listeners have run (if any were called): the 'change'
\* notification tagged external is dispatched if a top-level key differs from
\* oldRuntime and this._canEmit() allows it
ReconAfterDone ==
    /\ rpc = "postAfter"
    /\ IF _computeTopLevelChanges(oldRuntime, diskSnapshot) # {} /\ _canEmit
       THEN /\ changeLog' = Append(changeLog,
                    [source |-> "external", by |-> 0,
                     changes |-> Changes(oldRuntime, diskSnapshot)])
            /\ rpc' = "postChange"
       ELSE /\ rpc' = "idle"
            /\ UNCHANGED changeLog
    /\ oldRuntime' = Undefined
    /\ diskSnapshot' = Undefined
    /\ UNCHANGED <<data, file, snapshot, pendingWrite, writeTimer, pendingRead,
                   readTimer, calls, intents, chainTail, isWriting,
                   suppressWatchEvents, fsEvent, schedule, watcherErrors,
                   lastIO, extDiff, nExt, nFind, listening, ipc, lowdb, args, result, closed>>
    /\ UNCHANGED lockVars

\* the 'change' listeners have run
ReconChangeDone ==
    /\ rpc = "postChange"
    /\ rpc' = "idle"
    /\ UNCHANGED <<data, file, snapshot, pendingWrite, writeTimer, pendingRead,
                   readTimer, calls, intents, chainTail, isWriting,
                   suppressWatchEvents, fsEvent, schedule, oldRuntime, diskSnapshot,
                   changeLog, watcherErrors, lastIO, extDiff, nExt, nFind, listening, ipc, lowdb, args, result, closed>>
    /\ UNCHANGED lockVars

(***************************************************************************)
(* Spec: the scheduler, the hooks and the lock of one instance, beside     *)
(* another process that takes and returns the lock.                        *)
(***************************************************************************)
Next ==
    \/ Write
    \/ Replace
    \/ ResetDefault
    \/ Read
    \/ WriteTimerFires
    \/ ReadTimerFires
    \/ \E i \in DOMAIN intents : WStart(i)
    \/ \E i \in DOMAIN intents : WPrimaryDone(i)
    \/ \E i \in DOMAIN intents : WBeforeDone(i)
    \/ \E i \in DOMAIN intents : WCompatDone(i)
    \/ \E i \in DOMAIN intents : WCancelSettle(i)
    \/ \E i \in DOMAIN intents : WLockAcquired(i)
    \/ \E i \in DOMAIN intents : WLockTimeout(i)
    \/ \E i \in DOMAIN intents : WWriteOk(i)
    \/ \E i \in DOMAIN intents : WWriteFail(i)
    \/ \E i \in DOMAIN intents : WFinallyReleased(i)
    \/ \E i \in DOMAIN intents : WCatchReleased(i)
    \/ \E i \in DOMAIN intents : WAfterDone(i)
    \/ \E i \in DOMAIN intents : WChangeDone(i)
    \/ \E i \in DOMAIN intents : RStart(i)
    \/ \E i \in DOMAIN intents : RPrimaryDone(i)
    \/ \E i \in DOMAIN intents : RBeforeDone(i)
    \/ \E i \in DOMAIN intents : RCancelSettle(i)
    \/ \E i \in DOMAIN intents : RReadOk(i)
    \/ \E i \in DOMAIN intents : RReadFail(i)
    \/ \E i \in DOMAIN intents : RAfterDone(i)
    \/ LockOpen(Self)
    \/ LockWritePayload(Self)
    \/ LockRead(Self)
    \/ LockStat(Self)
    \/ LockUnlinkStale(Self)
    \/ LockRetry(Self)
    \/ OtherAcquires
    \/ ReleaseAfterWrite(Other)

Spec == Init /\ [][Next]_vars

\* One step of a chained callback of the instance, its hooks included
PipelineStep ==
    \/ \E i \in DOMAIN intents : WStart(i)
    \/ \E i \in DOMAIN intents : WPrimaryDone(i)
    \/ \E i \in DOMAIN intents : WBeforeDone(i)
    \/ \E i \in DOMAIN intents : WCompatDone(i)
    \/ \E i \in DOMAIN intents : WCancelSettle(i)
    \/ \E i \in DOMAIN intents : WLockAcquired(i)
    \/ \E i \in DOMAIN intents : WLockTimeout(i)
    \/ \E i \in DOMAIN intents : WWriteOk(i)
    \/ \E i \in DOMAIN intents : WWriteFail(i)
    \/ \E i \in DOMAIN intents : WFinallyReleased(i)
    \/ \E i \in DOMAIN intents : WCatchReleased(i)
    \/ \E i \in DOMAIN intents : WAfterDone(i)
    \/ \E i \in DOMAIN intents : WChangeDone(i)
    \/ \E i \in DOMAIN intents : RStart(i)
    \/ \E i \in DOMAIN intents : RPrimaryDone(i)
    \/ \E i \in DOMAIN intents : RBeforeDone(i)
    \/ \E i \in DOMAIN intents : RCancelSettle(i)
    \/ \E i \in DOMAIN intents : RReadOk(i)
    \/ \E i \in DOMAIN intents : RReadFail(i)
    \/ \E i \in DOMAIN intents : RAfterDone(i)

\* One step of _acquireLock in the instance
AcquireStep ==
    \/ LockOpen(Self)
    \/ LockWritePayload(Self)
    \/ LockRead(Self)
    \/ LockStat(Self)
    \/ LockUnlinkStale(Self)
    \/ LockRetry(Self)

\* The event loop of the instance: an armed timer fires once no call restarts
\* it, a settled promise runs what was chained to it, listeners return, the
\* filesystem calls complete. Nothing obliges the application to submit, nor
\* the other process to take or to return the lock.
FairInstance ==
    /\ WF_vars(WriteTimerFires)
    /\ WF_vars(ReadTimerFires)
    /\ WF_vars(PipelineStep)
    /\ WF_vars(AcquireStep)

SpecFair == Init /\ [][Next]_vars /\ FairInstance

(***************************************************************************)
(* SpecWatch: the watcher beside the instance's own writes, reads and      *)
(* findMatches, with no listener registered and nobody else at the lock.   *)
(***************************************************************************)
NextWatch ==
    \/ Write
    \/ Read
    \/ WriteTimerFires
    \/ ReadTimerFires
    \/ \E i \in DOMAIN intents : WStart(i)
    \/ \E i \in DOMAIN intents : WPrimaryDone(i)
    \/ \E i \in DOMAIN intents : WBeforeDone(i)
    \/ \E i \in DOMAIN intents : WLockAcquired(i)
    \/ \E i \in DOMAIN intents : WWriteOk(i)
    \/ \E i \in DOMAIN intents : WWriteFail(i)
    \/ \E i \in DOMAIN intents : WFinallyReleased(i)
    \/ \E i \in DOMAIN intents : WCatchReleased(i)
    \/ \E i \in DOMAIN intents : WAfterDone(i)
    \/ \E i \in DOMAIN intents : WChangeDone(i)
    \/ \E i \in DOMAIN intents : RStart(i)
    \/ \E i \in DOMAIN intents : RPrimaryDone(i)
    \/ \E i \in DOMAIN intents : RBeforeDone(i)
    \/ \E i \in DOMAIN intents : RReadOk(i)
    \/ \E i \in DOMAIN intents : RReadFail(i)
    \/ \E i \in DOMAIN intents : RAfterDone(i)
    \/ LockOpen(Self)
    \/ LockWritePayload(Self)
    \/ FindMatches
    \/ ExtModify
    \/ FsNotify
    \/ WatchTimerFires
    \/ ReconPreReadDone
    \/ ReconBeforeDone
    \/ ReconReadOk
    \/ ReconReadFail
    \/ ReconAfterDone
    \/ ReconChangeDone

SpecWatch == InitQuiet /\ [][NextWatch]_vars

(***************************************************************************)
(* SpecManual: the write pipeline of one instance whose application also   *)
(* calls the public lock() and unlock(). Their listeners leave the events  *)
(* alone; a lock() that meets a marker waits in _acquireLock and changes   *)
(* nothing while it does, so only the lock() whose exclusive create        *)
(* succeeds at once is a step here.                                        *)
(***************************************************************************)
\* lock(): await this._acquireLock() finds lockPath free
ManualLock ==
    /\ marker = NoMarker
    /\ marker' = [owner |-> Self, payload |-> TRUE, old |-> FALSE]
    /\ heldLockHandle' = [heldLockHandle EXCEPT ![Self] = TRUE]
    /\ UNCHANGED lpc
    /\ UNCHANGED dbVars

\* unlock(): await this._releaseLock()
ManualUnlock ==
    /\ marker' = _releaseLock(marker, heldLockHandle[Self])
    /\ heldLockHandle' = [heldLockHandle EXCEPT ![Self] = FALSE]
    /\ UNCHANGED lpc
    /\ UNCHANGED dbVars

NextManual ==
    \/ Write
    \/ WriteTimerFires
    \/ \E i \in DOMAIN intents : WStart(i)
    \/ \E i \in DOMAIN intents : WPrimaryDone(i)
    \/ \E i \in DOMAIN intents : WBeforeDone(i)
    \/ \E i \in DOMAIN intents : WLockAcquired(i)
    \/ \E i \in DOMAIN intents : WLockTimeout(i)
    \/ \E i \in DOMAIN intents : WWriteOk(i)
    \/ \E i \in DOMAIN intents : WFinallyReleased(i)
    \/ \E i \in DOMAIN intents : WCatchReleased(i)
    \/ \E i \in DOMAIN intents : WAfterDone(i)
    \/ \E i \in DOMAIN intents : WChangeDone(i)
    \/ LockOpen(Self)
    \/ LockWritePayload(Self)
    \/ LockRead(Self)
    \/ LockStat(Self)
    \/ LockUnlinkStale(Self)
    \/ LockRetry(Self)
    \/ ManualLock
    \/ ManualUnlock

SpecManual == InitQuiet /\ [][NextManual]_vars

(***************************************************************************)
(* SpecPeer: the write pipeline and the watcher of one instance whose       *)
(* backing file is also written, under the lock, by an instance in another *)
(* process. No listener is registered.                                     *)
(***************************************************************************)
NextPeer ==
    \/ Write
    \/ WriteTimerFires
    \/ \E i \in DOMAIN intents : WStart(i)
    \/ \E i \in DOMAIN intents : WPrimaryDone(i)
    \/ \E i \in DOMAIN intents : WBeforeDone(i)
    \/ \E i \in DOMAIN intents : WLockAcquired(i)
    \/ \E i \in DOMAIN intents : WWriteOk(i)
    \/ \E i \in DOMAIN intents : WWriteFail(i)
    \/ \E i \in DOMAIN intents : WFinallyReleased(i)
    \/ \E i \in DOMAIN intents : WCatchReleased(i)
    \/ \E i \in DOMAIN intents : WAfterDone(i)
    \/ \E i \in DOMAIN intents : WChangeDone(i)
    \/ LockOpen(Self)
    \/ LockWritePayload(Self)
    \/ PeerWrites
    \/ FsNotify
    \/ WatchTimerFires
    \/ ReconPreReadDone
    \/ ReconBeforeDone
    \/ ReconReadOk
    \/ ReconReadFail
    \/ ReconAfterDone
    \/ ReconChangeDone

SpecPeer == InitQuiet /\ [][NextPeer]_vars

(***************************************************************************)
(* SpecSuppress: the write pipeline of one instance whose listeners may    *)
(* call evt.preventChain() and stay awaiting, beside its watcher and a     *)
(* program that modifies the file.                                         *)
(***************************************************************************)
NextSuppress ==
    \/ Write
    \/ WriteTimerFires
    \/ \E i \in DOMAIN intents : HookPreventsChain(i)
    \/ \E i \in DOMAIN intents : WStart(i)
    \/ \E i \in DOMAIN intents : WPrimaryDone(i)
    \/ \E i \in DOMAIN intents : WBeforeDone(i)
    \/ \E i \in DOMAIN intents : WCancelSettle(i)
    \/ \E i \in DOMAIN intents : WLockAcquired(i)
    \/ \E i \in DOMAIN intents : WWriteOk(i)
    \/ \E i \in DOMAIN intents : WFinallyReleased(i)
    \/ \E i \in DOMAIN intents : WAfterDone(i)
    \/ \E i \in DOMAIN intents : WChangeDone(i)
    \/ LockOpen(Self)
    \/ LockWritePayload(Self)
    \/ ExtModify
    \/ FsNotify
    \/ WatchTimerFires
    \/ ReconPreReadDone
    \/ ReconBeforeDone
    \/ ReconReadOk
    \/ ReconAfterDone
    \/ ReconChangeDone

SpecSuppress == Init /\ [][NextSuppress]_vars

(***************************************************************************)
(* SpecClose: the write pipeline and the watcher of one instance whose     *)
(* application calls close() (once), beside a program that modifies the    *)
(* file. No listener is registered.                                        *)
(***************************************************************************)
\* Close clearing the timers and the pending Intent as well
CloseCancelsTimers ==
    /\ ~closed.done
    /\ closed' = [done |-> TRUE, calls |-> Len(calls), intents |-> Len(intents)]
    /\ marker' = _releaseLock(marker, heldLockHandle[Self])
    /\ heldLockHandle' = [heldLockHandle EXCEPT ![Self] = FALSE]
    /\ writeTimer' = FALSE
    /\ pendingWrite' = NoPendingWrite
    /\ schedule' = FALSE
    /\ UNCHANGED lpc
    /\ UNCHANGED <<data, file, snapshot, pendingRead, readTimer,
                   calls, intents, chainTail, isWriting, suppressWatchEvents, fsEvent,
                   rpc, oldRuntime, diskSnapshot, changeLog, watcherErrors,
                   lastIO, extDiff, nExt, nFind, listening, ipc, lowdb, args, result>>

\* close(): the watcher is closed, then await this._releaseLock(); the
\* timers, the pending Intents and the chain are not looked at
Close ==
    /\ ~closed.done
    /\ closed' = [done |-> TRUE, calls |-> Len(calls), intents |-> Len(intents)]
    /\ marker' = _releaseLock(marker, heldLockHandle[Self])
    /\ heldLockHandle' = [heldLockHandle EXCEPT ![Self] = FALSE]
    /\ UNCHANGED lpc
    /\ UNCHANGED <<data, file, snapshot, pendingWrite, writeTimer, pendingRead, readTimer,
                   calls, intents, chainTail, isWriting, suppressWatchEvents, fsEvent,
                   schedule, rpc, oldRuntime, diskSnapshot, changeLog, watcherErrors,
                   lastIO, extDiff, nExt, nFind, listening, ipc, lowdb, args, result>>

\* what the event loop and the filesystem do for the instance by themselves
SystemClose ==
    \/ WriteTimerFires
    \/ \E i \in DOMAIN intents : WStart(i)
    \/ \E i \in DOMAIN intents : WPrimaryDone(i)
    \/ \E i \in DOMAIN intents : WBeforeDone(i)
    \/ \E i \in DOMAIN intents : WLockAcquired(i)
    \/ \E i \in DOMAIN intents : WWriteOk(i)
    \/ \E i \in DOMAIN intents : WFinallyReleased(i)
    \/ \E i \in DOMAIN intents : WAfterDone(i)
    \/ \E i \in DOMAIN intents : WChangeDone(i)
    \/ LockOpen(Self)
    \/ LockWritePayload(Self)
    \/ FsNotify
    \/ WatchTimerFires
    \/ ReconPreReadDone
    \/ ReconBeforeDone
    \/ ReconReadOk
    \/ ReconAfterDone
    \/ ReconChangeDone

NextClose ==
    \/ Write
    \/ Close
    \/ ExtModify
    \/ SystemClose

SpecClose == InitQuiet /\ [][NextClose]_vars

(***************************************************************************)
(* SpecNest: one instance with listeners registered, no other process and  *)
(* no I/O failure. A listener of a canonical pre-event may call read() on  *)
(* the instance, with or without evt.preventChain(), awaited or not.       *)
(***************************************************************************)
\* the timers and the chained callbacks: what the event loop runs by itself
SystemNest ==
    \/ WriteTimerFires
    \/ ReadTimerFires
    \/ \E i \in DOMAIN intents : WStart(i)
    \/ \E i \in DOMAIN intents : WPrimaryDone(i)
    \/ \E i \in DOMAIN intents : WBeforeDone(i)
    \/ \E i \in DOMAIN intents : WCancelSettle(i)
    \/ \E i \in DOMAIN intents : WLockAcquired(i)
    \/ \E i \in DOMAIN intents : WWriteOk(i)
    \/ \E i \in DOMAIN intents : WFinallyReleased(i)
    \/ \E i \in DOMAIN intents : WAfterDone(i)
    \/ \E i \in DOMAIN intents : WChangeDone(i)
    \/ \E i \in DOMAIN intents : RStart(i)
    \/ \E i \in DOMAIN intents : RPrimaryDone(i)
    \/ \E i \in DOMAIN intents : RBeforeDone(i)
    \/ \E i \in DOMAIN intents : RCancelSettle(i)
    \/ \E i \in DOMAIN intents : RReadOk(i)
    \/ \E i \in DOMAIN intents : RAfterDone(i)
    \/ LockOpen(Self)
    \/ LockWritePayload(Self)

NextNest ==
    \/ Write
    \/ Read
    \/ \E i \in DOMAIN intents : HookCallsRead(i)
    \/ SystemNest

SpecNest == Init /\ [][NextNest]_vars

(***************************************************************************)
(* SpecEmit: one instance, no other process and no I/O failure, whose      *)
(* canonical pre-events go to two registered listeners, called one by one. *)
(***************************************************************************)
NextEmit ==
    \/ Write
    \/ Read
    \/ WriteTimerFires
    \/ ReadTimerFires
    \/ \E i \in DOMAIN intents : EmitBegin(i)
    \/ \E i \in DOMAIN intents : EmitCall(i)
    \/ \E i \in DOMAIN intents : EmitSettle(i)
    \/ \E i \in DOMAIN intents : WStart(i)
    \/ \E i \in DOMAIN intents : WPrimaryDone(i)
    \/ \E i \in DOMAIN intents : WBeforeDone(i)
    \/ \E i \in DOMAIN intents : WCancelSettle(i)
    \/ \E i \in DOMAIN intents : WLockAcquired(i)
    \/ \E i \in DOMAIN intents : WWriteOk(i)
    \/ \E i \in DOMAIN intents : WFinallyReleased(i)
    \/ \E i \in DOMAIN intents : WAfterDone(i)
    \/ \E i \in DOMAIN intents : WChangeDone(i)
    \/ \E i \in DOMAIN intents : RStart(i)
    \/ \E i \in DOMAIN intents : RPrimaryDone(i)
    \/ \E i \in DOMAIN intents : RBeforeDone(i)
    \/ \E i \in DOMAIN intents : RCancelSettle(i)
    \/ \E i \in DOMAIN intents : RReadOk(i)
    \/ \E i \in DOMAIN intents : RAfterDone(i)
    \/ LockOpen(Self)
    \/ LockWritePayload(Self)

SpecEmit == InitQuiet /\ [][NextEmit]_vars

(***************************************************************************)
(* SpecInit: the constructor's _initPromise on a path that has no backing  *)
(* file or a file another program left there, with either flavour of       *)
(* lowdb, then the read pipeline. The adapter works: a failure of these    *)
(* calls would be swallowed by the catch blocks around them.               *)
(***************************************************************************)
\* the constructor has returned: this._low = null, this._lastOnDiskSnapshot = null
InitNew ==
    /\ marker = NoMarker
    /\ lpc = [p \in Procs |-> "idle"]
    /\ heldLockHandle = [p \in Procs |-> FALSE]
    /\ data = Null
    /\ file \in {Null} \cup ExtDocs
    /\ snapshot = Null
    /\ pendingWrite = NoPendingWrite
    /\ writeTimer = FALSE
    /\ pendingRead = NoPendingRead
    /\ readTimer = FALSE
    /\ calls = <<>>
    /\ intents = <<>>
    /\ chainTail = 0
    /\ isWriting = FALSE
    /\ suppressWatchEvents = FALSE
    /\ fsEvent = FALSE
    /\ schedule = FALSE
    /\ rpc = "idle"
    /\ oldRuntime = Undefined
    /\ diskSnapshot = Undefined
    /\ changeLog = <<>>
    /\ watcherErrors = 0
    /\ lastIO = Null
    /\ extDiff = 0
    /\ nExt = 0
    /\ nFind = 0
    /\ listening = TRUE
    /\ ipc = "new"
    /\ lowdb \in LowdbFlavours
    /\ closed = NotClosed
    /\ args = <<>>
    /\ result = NoResult

initVars == <<pendingWrite, writeTimer, pendingRead, readTimer, calls, intents,
              chainTail, isWriting, suppressWatchEvents, fsEvent, schedule, rpc,
              oldRuntime, diskSnapshot, changeLog, watcherErrors, extDiff, nExt,
              nFind, listening, lowdb, args, result, closed>>

\* this._low = new Low(this._adapter, this.opts.defaultData || {})
InitLow ==
    /\ ipc = "new"
    /\ data' = LowNew(defaultData)
    /\ ipc' = "read1"
    /\ UNCHANGED <<file, snapshot, lastIO>>
    /\ UNCHANGED initVars
    /\ UNCHANGED lockVars

\* the initial await this._low.read(); without data the defaults are cloned
\* into this._low.data for the write that follows
InitRead ==
    /\ ipc = "read1"
    /\ IF LowRead(data, file) \in {Undefined, Null}
       THEN /\ data' = _cloneSafe(defaultData)
            /\ ipc' = "write"
       ELSE /\ data' = LowRead(data, file)
            /\ ipc' = "read2"
    /\ UNCHANGED <<file, snapshot, lastIO>>
    /\ UNCHANGED initVars
    /\ UNCHANGED lockVars

\* await this._low.write() of the defaults
InitWriteDefaults ==
    /\ ipc = "write"
    /\ file' = data
    /\ lastIO' = data
    /\ ipc' = "read2"
    /\ UNCHANGED <<data, snapshot>>
    /\ UNCHANGED initVars
    /\ UNCHANGED lockVars

\* the second await this._low.read() and the first Disk Snapshot
InitSnapshot ==
    /\ ipc = "read2"
    /\ data' = LowRead(data, file)
    /\ snapshot' = _cloneSafe(IF LowRead(data, file) = Undefined THEN <<>>
                              ELSE LowRead(data, file))
    /\ lastIO' = LowRead(data, file)
    /\ ipc' = "ready"
    /\ UNCHANGED file
    /\ UNCHANGED initVars
    /\ UNCHANGED lockVars

NextInit ==
    \/ InitLow
    \/ InitRead
    \/ InitWriteDefaults
    \/ InitSnapshot
    \/ Read
    \/ ReadTimerFires
    \/ \E i \in DOMAIN intents : RStart(i)
    \/ \E i \in DOMAIN intents : RPrimaryDone(i)
    \/ \E i \in DOMAIN intents : RBeforeDone(i)
    \/ \E i \in DOMAIN intents : RCancelSettle(i)
    \/ \E i \in DOMAIN intents : RReadOk(i)
    \/ \E i \in DOMAIN intents : RAfterDone(i)

SpecInit == InitNew /\ [][NextInit]_vars

(***************************************************************************)
(* SpecMerge: _deepMerge applied to a clone of a base and to a patch.      *)
(***************************************************************************)
MergeBases ==
    {<<>>,
     Obj1("n", Obj1("x", Scalar(0))),
     Obj1("n", Scalar(1)),
     Obj1("n", Null),
     Obj1("n", Arr(<<Scalar(1)>>)),
     Obj1("a", Scalar(1)),
     [k \in {"n", "a"} |-> IF k = "n" THEN Obj1("x", Obj1("p", Scalar(0))) ELSE Scalar(1)],
     Obj1("constructor", Scalar(0))}

MergePatches ==
    {<<>>,
     Obj1("n", Obj1("y", Scalar(1))),
     Obj1("n", Obj1("x", Obj1("q", Scalar(1)))),
     Obj1("n", Scalar(2)),
     Obj1("n", Null),
     Obj1("n", Arr(<<Scalar(2), Scalar(3)>>)),
     Obj1("b", Scalar(1)),
     Obj1("constructor", Scalar(1)),
     Obj1("n", Obj1("prototype", Scalar(1))),
     Obj1("m", [k \in {"__proto__", "z"} |-> Scalar(1)])}

InitMerge ==
    /\ InitInstance
    /\ listening = FALSE
    /\ args \in MergeBases \X MergePatches
    /\ result = NoResult

\* CallDeepMerge taking every top-level value of the patch wholesale
CallDeepMergeShallow ==
    /\ result = NoResult
    /\ result' = [k \in DOMAIN args[1] \cup DOMAIN args[2] |->
                    IF k \in DOMAIN args[2] THEN args[2][k] ELSE args[1][k]]
    /\ UNCHANGED args
    /\ UNCHANGED <<data, file, snapshot, pendingWrite, writeTimer, pendingRead,
                   readTimer, calls, intents, chainTail, isWriting, suppressWatchEvents,
                   fsEvent, schedule, rpc, oldRuntime, diskSnapshot, changeLog,
                   watcherErrors, lastIO, extDiff, nExt, nFind, listening, ipc, lowdb, closed>>
    /\ UNCHANGED lockVars

\* this._deepMerge(GentleDB._cloneSafe(oldData), pending.data)
CallDeepMerge ==
    /\ result = NoResult
    /\ result' = _deepMerge(_cloneSafe(args[1]), args[2])
    /\ UNCHANGED args
    /\ UNCHANGED <<data, file, snapshot, pendingWrite, writeTimer, pendingRead,
                   readTimer, calls, intents, chainTail, isWriting, suppressWatchEvents,
                   fsEvent, schedule, rpc, oldRuntime, diskSnapshot, changeLog,
                   watcherErrors, lastIO, extDiff, nExt, nFind, listening, ipc, lowdb, closed>>
    /\ UNCHANGED lockVars

NextMerge == CallDeepMerge

SpecMerge == InitMerge /\ [][NextMerge]_vars

(***************************************************************************)
(* SpecFind: findMatches on a snapshot, the query being a string without   *)
(* ' and / (no regular expression). Strings are sequences of characters.   *)
(***************************************************************************)
MaxMatchesBound == 3

\* String.prototype.toLowerCase on the capitals the model uses
Capitals == [H |-> "h", W |-> "w"]
Lower(c) == IF c \in DOMAIN Capitals THEN Capitals[c] ELSE c
toLowerCase(cs) == [i \in DOMAIN cs |-> Lower(cs[i])]

\* String.prototype.trim
RECURSIVE TrimLeft(_)
TrimLeft(cs) == IF cs # <<>> /\ Head(cs) = " " THEN TrimLeft(Tail(cs)) ELSE cs
RECURSIVE TrimRight(_)
TrimRight(cs) ==
    IF cs # <<>> /\ cs[Len(cs)] = " " THEN TrimRight(SubSeq(cs, 1, Len(cs) - 1)) ELSE cs
trim(cs) == TrimRight(TrimLeft(cs))

\* String.prototype.includes
includes(cs, ts) ==
    \E i \in 0..(Len(cs) - Len(ts)) : SubSeq(cs, i + 1, i + Len(ts)) = ts

\* [\s,] of the query pattern
IsSep(c) == c \in {" ", ","}

\* the end of the run [^\s,]+ that starts at i: the first separator, or the end
RunEnd(q, i) ==
    IF \E j \in i..Len(q) : IsSep(q[j])
    THEN CHOOSE j \in i..Len(q) : IsSep(q[j]) /\ \A h \in i..(j - 1) : ~IsSep(q[h])
    ELSE Len(q) + 1

\* the closing quote of "([^"]+)" opened at i, 0 if this alternative fails
ClosingQuote(q, i) ==
    IF \E j \in (i + 2)..Len(q) : q[j] = "\"" /\ \A h \in (i + 1)..(j - 1) : q[h] # "\""
    THEN CHOOSE j \in (i + 2)..Len(q) : q[j] = "\"" /\ \A h \in (i + 1)..(j - 1) : q[h] # "\""
    ELSE 0

\* _normalizeTokenObject for a string token that is not regex-like
_normalizeTokenObject(obj, caseSensitive) ==
    [token |-> IF caseSensitive THEN trim(obj.token) ELSE toLowerCase(trim(obj.token)),
     exactOnly |-> obj.exactOnly, isRegex |-> FALSE]

\* the while loop of _parseToTokens over re.exec(query), from position i on
RECURSIVE ScanTokens(_, _)
ScanTokens(q, i) ==
    IF i > Len(q) THEN <<>>
    ELSE IF q[i] = "\"" /\ ClosingQuote(q, i) # 0
    THEN <<[token |-> SubSeq(q, i + 1, ClosingQuote(q, i) - 1), exactOnly |-> FALSE]>>
         \o ScanTokens(q, ClosingQuote(q, i) + 1)
    ELSE IF q[i] = "=" /\ i < Len(q) /\ ~IsSep(q[i + 1])
    THEN <<[token |-> SubSeq(q, i + 1, RunEnd(q, i + 1) - 1), exactOnly |-> TRUE]>>
         \o ScanTokens(q, RunEnd(q, i + 1))
    ELSE IF ~IsSep(q[i])
    THEN <<[token |-> SubSeq(q, i, RunEnd(q, i) - 1), exactOnly |-> FALSE]>>
         \o ScanTokens(q, RunEnd(q, i))
    ELSE ScanTokens(q, i + 1)

\* _parseToTokens(query, cfg) for a string query
_parseToTokens(query, caseSensitive) ==
    [i \in DOMAIN ScanTokens(query, 1) |->
        _normalizeTokenObject(ScanTokens(query, 1)[i], caseSensitive)]

\* Object.keys(node): the documents of the model hold their keys in this order
KeyOrder == <<"items", "title", "tag", "note">>
RECURSIVE KeysIn(_, _)
KeysIn(node, order) ==
    IF order = <<>> THEN <<>>
    ELSE IF Head(order) \in DOMAIN node THEN <<Head(order)>> \o KeysIn(node, Tail(order))
    ELSE KeysIn(node, Tail(order))

\* `${curPath || '(root)'}[${i}]` and `${curPath}.${k}`: a path is the sequence
\* of its segments
IndexSegment(i) == <<"[0]", "[1]", "[2]">>[i + 1]
OrRoot(curPath) == IF curPath = <<>> THEN <<"(root)">> ELSE curPath

\* walk without its early returns: the calls of tryMatchLeaf(origin, leafVal)
\* it makes on node, in order
RECURSIVE Leaves(_, _, _)
RECURSIVE LeavesOfItems(_, _, _, _)
RECURSIVE LeavesOfKeys(_, _, _, _)
Leaves(node, curPath, searchKeys) ==
    IF node = Null \/ node = Undefined THEN <<[origin |-> OrRoot(curPath), match |-> node]>>
    ELSE IF IsArray(node)
    THEN IF node["@"] = <<>> THEN <<[origin |-> OrRoot(curPath), match |-> node]>>
         ELSE LeavesOfItems(node["@"], 1, curPath, searchKeys)
    ELSE IF IsObject(node)
    THEN IF DOMAIN node = {} THEN <<[origin |-> OrRoot(curPath), match |-> node]>>
         ELSE LeavesOfKeys(node, KeysIn(node, KeyOrder), curPath, searchKeys)
    ELSE <<[origin |-> OrRoot(curPath), match |-> node]>>
LeavesOfItems(items, i, curPath, searchKeys) ==
    IF i > Len(items) THEN <<>>
    ELSE Leaves(items[i], Append(OrRoot(curPath), IndexSegment(i - 1)), searchKeys)
         \o LeavesOfItems(items, i + 1, curPath, searchKeys)
LeavesOfKeys(node, keys, curPath, searchKeys) ==
    IF keys = <<>> THEN <<>>
    ELSE (IF searchKeys
          THEN <<[origin |-> Append(Append(curPath, Head(keys)), "#key"),
                  match |-> Str(<<Head(keys)>>)]>>
          ELSE <<>>)
         \o Leaves(node[Head(keys)], Append(curPath, Head(keys)), searchKeys)
         \o LeavesOfKeys(node, Tail(keys), curPath, searchKeys)

\* leafStr: String(leafVal), JSON.stringify for {} and []
LeafStr(v) ==
    IF IsString(v) THEN v["$"]
    ELSE IF v = Null THEN <<"n", "u", "l", "l">>
    ELSE IF v = Undefined THEN <<"u", "n", "d", "e", "f", "i", "n", "e", "d">>
    ELSE IF IsArray(v) THEN <<"[", "]">>
    ELSE IF IsObject(v) THEN <<"{", "}">>
    ELSE <<"0", "1", "2", "3", "4", "5", "6", "7", "8", "9">>[v["#"] + 1]

\* the locals of findMatches; tests: the tests of a leaf against a token, each
\* with the number of entries there were when it was made
NoMatches == [partial |-> <<>>, exact |-> <<>>, seen |-> {}, tests |-> <<>>]
Count(m) == Len(m.partial) + Len(m.exact)

\* CapReached looking at the partial list only
CapReachedPartialOnly(m, limit) == Len(m.partial) >= limit

\* partial.length + exact.length >= limit
CapReached(m, limit) == Count(m) >= limit

\* one round of the loop over the tokens in tryMatchLeaf
TestToken(m, leaf, norm, tk) ==
    LET t == [m EXCEPT !.tests = Append(@, [origin |-> leaf.origin, count |-> Count(m)])]
        entry == [origin |-> leaf.origin, match |-> leaf.match]
        keyExact == <<"e", leaf.origin, tk.token>>
        keyPartial == <<"p", leaf.origin, tk.token>>
    IN  IF norm = tk.token
        THEN IF keyExact \notin t.seen
             THEN [t EXCEPT !.exact = Append(@, entry), !.seen = @ \cup {keyExact}]
             ELSE t
        ELSE IF tk.exactOnly THEN t
        ELSE IF includes(norm, tk.token) /\ keyPartial \notin t.seen
             THEN [t EXCEPT !.partial = Append(@, entry), !.seen = @ \cup {keyPartial}]
             ELSE t

\* tryMatchLeaf: the loop returns once the cap is reached
RECURSIVE tryMatchLeaf(_, _, _, _, _)
tryMatchLeaf(m, leaf, tokens, limit, caseSensitive) ==
    IF tokens = <<>> \/ CapReached(m, limit) THEN m
    ELSE tryMatchLeaf(TestToken(m, leaf,
                                IF caseSensitive THEN LeafStr(leaf.match)
                                ELSE toLowerCase(LeafStr(leaf.match)),
                                Head(tokens)),
                      leaf, Tail(tokens), limit, caseSensitive)

\* walk: the leaves in order, given up once the cap is reached
RECURSIVE walk(_, _, _, _, _)
walk(m, leaves, tokens, limit, caseSensitive) ==
    IF leaves = <<>> \/ CapReached(m, limit) THEN m
    ELSE walk(tryMatchLeaf(m, Head(leaves), tokens, limit, caseSensitive),
              Tail(leaves), tokens, limit, caseSensitive)

\* findMatches(query, {caseSensitive, searchKeys, maxMatches}) on snapshot
findMatches(query, snapshotDoc, maxMatches, caseSensitive, searchKeys) ==
    IF _parseToTokens(query, caseSensitive) = <<>> THEN NoMatches
    ELSE walk(NoMatches, Leaves(snapshotDoc, <<>>, searchKeys),
              _parseToTokens(query, caseSensitive),
              IF maxMatches < 1 THEN 1 ELSE maxMatches, caseSensitive)

HelloWorld == <<"H", "e", "l", "l", "o", " ", "W", "o", "r", "l", "d">>
HelloAgain == <<"h", "e", "l", "l", "o", " ", "a", "g", "a", "i", "n">>

FindDocs ==
    {Obj1("items", Arr(<<Obj1("title", Str(HelloWorld)), Obj1("title", Str(HelloAgain))>>)),
     [k \in {"items", "tag", "note"} |->
        IF k = "items" THEN Arr(<<>>)
        ELSE IF k = "tag" THEN Str(<<"h", "e", "l", "l", "o">>)
        ELSE Null],
     <<>>}

FindQueries ==
    {<<"=">> \o HelloWorld,
     HelloWorld,
     <<"\"">> \o HelloWorld \o <<"\"">>,
     <<"=", "h", "e", "l", "l", "o">>,
     <<"h", "e", "l", "l", "o", ",", "l", "o", " ", "l">>,
     <<"t", "i", "t", "l", "e", " ", "=">>,
     <<" ", ",", " ">>}

InitFind ==
    /\ InitInstance
    /\ listening = FALSE
    /\ args \in FindQueries \X FindDocs \X (0..MaxMatchesBound) \X BOOLEAN \X BOOLEAN
    /\ result = NoResult

\* const result = await db.findMatches(query, opts)
CallFindMatches ==
    /\ result = NoResult
    /\ result' = findMatches(args[1], args[2], args[3], args[4], args[5])
    /\ UNCHANGED args
    /\ UNCHANGED <<data, file, snapshot, pendingWrite, writeTimer, pendingRead,
                   readTimer, calls, intents, chainTail, isWriting, suppressWatchEvents,
                   fsEvent, schedule, rpc, oldRuntime, diskSnapshot, changeLog,
                   watcherErrors, lastIO, extDiff, nExt, nFind, listening, ipc, lowdb, closed>>
    /\ UNCHANGED lockVars

NextFind == CallFindMatches

SpecFind == InitFind /\ [][NextFind]_vars

(***************************************************************************)
(* Properties of the Operation Scheduler.                                  *)
(***************************************************************************)
WriteIntents == {i \in DOMAIN intents : intents[i].kind = "write"}
Executing(i) == intents[i].pc \notin {"queued", "done"}
InList(c, resolvers) == \E j \in DOMAIN resolvers : resolvers[j] = c
WriteClass(c) == calls[c].op # "read"
LastOf(resolvers) == resolvers[Len(resolvers)]

\* the write-class call before c
PrevWriteCall(c) ==
    CHOOSE c0 \in 1..(c - 1) :
        /\ WriteClass(c0)
        /\ \A k \in (c0 + 1)..(c - 1) : ~WriteClass(k)

SameHolder(c0, c) ==
    \/ InList(c0, pendingWrite.resolvers) /\ InList(c, pendingWrite.resolvers)
    \/ \E i \in WriteIntents :
          InList(c0, intents[i].resolvers) /\ InList(c, intents[i].resolvers)

Holders(c) ==
    Cardinality({i \in WriteIntents : InList(c, intents[i].resolvers)})
      + (IF InList(c, pendingWrite.resolvers) THEN 1 ELSE 0)

\* C1: the write-class calls of one debounce window end up in one Intent (a
\* call that arrives while the write timer is armed joins the record of the
\* call before it, and every call is held by exactly one record), and an
\* Intent calls _low.write() at most once: exactly once when no listener
\* cancelled it and the lock was acquired, and every Intent that resolved
\* its callers after the pipeline stored exactly once.
C1_OneWritePerWindow ==
    /\ \A c \in DOMAIN calls :
          WriteClass(c) =>
            /\ Holders(c) = 1
            /\ calls[c].joined => SameHolder(PrevWriteCall(c), c)
    /\ \A i \in WriteIntents :
          LET it == intents[i]
          IN /\ it.nAcq <= 1
             /\ it.nWrites <= 1
             /\ it.nStored <= it.nWrites
             /\ (it.pc = "done" /\ it.outcome # "cancelled" /\ it.nAcq = 1)
                   => it.nWrites = 1
             /\ it.outcome = "resolved" => it.nStored = 1

\* two calls of one window were resolved by one physical write
C1_Witness ==
    \E i \in WriteIntents :
        /\ Len(intents[i].resolvers) >= 2
        /\ intents[i].outcome = "resolved"
        /\ intents[i].nStored = 1
        /\ \A j \in DOMAIN intents[i].resolvers :
              calls[intents[i].resolvers[j]].st = "resolved"

\* C2: at most one read or write Intent of the instance is executing, and
\* an Intent has started only if every Intent chained before it is done.
C2_OneIntentAtATime ==
    /\ Cardinality({i \in DOMAIN intents : Executing(i)}) <= 1
    /\ \A i, j \in DOMAIN intents :
          (i < j /\ intents[j].pc # "queued") => intents[i].pc = "done"

\* a read Intent and a write Intent are chained; one waits while the other
\* holds the lock
C2_Witness ==
    \E i, j \in DOMAIN intents :
        /\ i < j
        /\ intents[i].kind # intents[j].kind
        /\ Executing(i)
        /\ intents[j].pc = "queued"
        /\ lpc[Self] = "held" \/ intents[i].pc = "reading"

\* every caller of the Intent was settled as st with value v
AllSettled(it, st, v) ==
    \A j \in DOMAIN it.resolvers :
        /\ calls[it.resolvers[j]].st = st
        /\ calls[it.resolvers[j]].val = v

\* no Intent chained after i has started
NoneStartedAfter(i) ==
    \A j \in DOMAIN intents : j > i => intents[j].pc = "queued"

\* C4: once the listeners of the canonical pre-event of a write Intent
\* cancelled it (setResult(v), or preventDefault alone), the Intent never
\* acquires the lock, never calls _low.write() and dispatches no 'change';
\* the in-memory Document, the Disk Snapshot and the file are what they were
\* when it started; and all its callers are resolved, with v after
\* setResult(v) and with no value after preventDefault alone.
C4_HookCancelsWrite ==
    \A i \in WriteIntents :
        LET it == intents[i]
        IN (it.evP.defaultPrevented
              /\ it.pc \notin {"queued", "prePrimary", "preBefore", "preCompat"})
           => /\ it.pc \in {"cancelAfter", "done"}
              /\ it.nAcq = 0 /\ it.nWrites = 0 /\ it.nStored = 0 /\ it.nChange = 0
              /\ NoneStartedAfter(i)
                   => data = it.oldData /\ file = it.file0 /\ snapshot = it.snapshot0
              /\ it.evP.result # Undefined => it.chosen = it.evP.result
              /\ (it.pc = "cancelAfter" /\ it.evP.result = Undefined
                     /\ it.evB.result = Undefined /\ it.evW.result = Undefined)
                   => it.chosen = Undefined
              /\ it.pc = "done" => AllSettled(it, "resolved", it.chosen)

\* one write() was answered by setResult(v) and another by preventDefault
C4_Witness ==
    \E i, j \in WriteIntents :
        /\ intents[i].pc = "done" /\ intents[j].pc = "done"
        /\ ~intents[i].replace /\ ~intents[j].replace
        /\ intents[i].evP.result = HookResult
        /\ AllSettled(intents[i], "resolved", HookResult)
        /\ intents[j].evP.defaultPrevented
        /\ intents[j].evP.result = Undefined
        /\ AllSettled(intents[j], "resolved", Undefined)

\* the call whose resolver was pushed last, the payloads and the operations
\* of the calls an Intent coalesced, in order of arrival
LastCall(it) == calls[LastOf(it.resolvers)]
Payloads(it) == [j \in DOMAIN it.resolvers |-> calls[it.resolvers[j]].data]
Ops(it) == [j \in DOMAIN it.resolvers |-> calls[it.resolvers[j]].op]

RECURSIVE FoldMerge(_, _)
FoldMerge(S, ps) ==
    IF ps = <<>> THEN S ELSE FoldMerge(_deepMerge(S, Head(ps)), Tail(ps))

\* the Intent coalesced merge writes only, stored, and no listener changed
\* its proposed Document
MergeWindowStored(it) ==
    /\ \A j \in DOMAIN it.resolvers : calls[it.resolvers[j]].op = "write"
    /\ it.nStored = 1
    /\ it.evP.newData = it.proposed0

C8_LastPayloadLastMode ==
    \A i \in WriteIntents :
        LET it == intents[i]
            last == LastCall(it)
        IN /\ it.data = last.data
           /\ it.op = last.op
           /\ it.replace = (last.op \in {"replace", "resetDefault"})
           /\ it.pc # "queued"
                => it.proposed0 = IF last.op \in {"replace", "resetDefault"}
                                  THEN last.data
                                  ELSE _deepMerge(it.oldData, last.data)
           /\ (Ops(it) = <<"replace", "resetDefault">> /\ it.nStored = 1
                  /\ it.evP.newData = it.proposed0)
                => it.wbuf = defaultData

\* replace({a:1}) and resetDefault() were coalesced and the default data stored
C8_Witness ==
    \E i \in WriteIntents :
        /\ Ops(intents[i]) = <<"replace", "resetDefault">>
        /\ Payloads(intents[i])[1] = Obj1("a", Scalar(1))
        /\ intents[i].outcome = "resolved"
        /\ intents[i].nStored = 1
        /\ intents[i].wbuf = defaultData
        /\ file = defaultData

\* no read or write Intent is executing and no reconciliation is running
NoOperationInFlight ==
    /\ \A i \in DOMAIN intents : ~Executing(i)
    /\ rpc = "idle"

\* C6: while no operation is in flight the in-memory Document is the last
\* value successfully written to or read from the file; in particular a
\* write that failed (lock timeout, I/O error) left it as it was.
C6_DocumentIsLastIO ==
    NoOperationInFlight => data = lastIO

(***************************************************************************)
(* Properties of failure handling in the Operation Scheduler.              *)
(***************************************************************************)
\* C13: the Intent chained after one whose operation threw (I/O error, lock
\* timeout) is not blocked (its callback can start as soon as the failed
\* one is done), is rejected only with an error of its own, and once done
\* has run and settled its callers.
C13_ChainSurvivesFailure ==
    \A j \in DOMAIN intents :
        LET i == intents[j].prev
        IN (i # 0 /\ intents[i].outcome = "rejected")
           => /\ intents[i].pc = "done"
              /\ intents[j].pc = "queued" => ENABLED (WStart(j) \/ RStart(j))
              /\ intents[j].outcome = "rejected"
                   => \/ intents[j].ioErr
                      \/ intents[j].err = LockTimeoutError /\ intents[j].nAcq = 0
              /\ intents[j].pc = "done"
                   => /\ intents[j].outcome \in {"resolved", "cancelled", "rejected"}
                      /\ \A k \in DOMAIN intents[j].resolvers :
                            calls[intents[j].resolvers[k]].st # "pending"

\* a write Intent stored and resolved its caller right after a failed Intent
C13_Witness ==
    \E j \in WriteIntents :
        /\ intents[j].prev # 0
        /\ intents[intents[j].prev].outcome = "rejected"
        /\ intents[j].outcome = "resolved"
        /\ intents[j].nStored = 1
        /\ file = intents[j].wbuf

\* C14: when an Intent is done every caller it coalesced is settled, all
\* alike: resolved with the Document read (read), with no value (write),
\* with the listeners' override (cancelled), or rejected with the one error
\* the operation threw.
C14_SameOutcomeForAll ==
    \A i \in DOMAIN intents :
        LET it == intents[i]
        IN it.pc = "done"
           => /\ it.resolvers # <<>>
              /\ it.outcome = "rejected"
                   => it.err # Undefined /\ AllSettled(it, "rejected", it.err)
              /\ it.outcome = "cancelled" => AllSettled(it, "resolved", it.chosen)
              /\ (it.outcome = "resolved" /\ it.kind = "read")
                   => AllSettled(it, "resolved", it.chosen)
              /\ (it.outcome = "resolved" /\ it.kind = "write")
                   => AllSettled(it, "resolved", Undefined)
              /\ it.outcome \in {"resolved", "cancelled", "rejected"}

\* two coalesced callers were rejected with the same error
C14_Witness ==
    \E i \in DOMAIN intents :
        /\ intents[i].pc = "done"
        /\ Len(intents[i].resolvers) = 2
        /\ AllSettled(intents[i], "rejected", LockTimeoutError)

\* C15: once its write Intents are settled, whatever the reason, the
\* instance has no marker at lockPath and no lock handle, is not inside
\* _acquireLock, and both _isWriting and _suppressWatchEvents are false.
C15_WriteLeavesNothingBehind ==
    (\A i \in DOMAIN intents : ~Executing(i))
      => /\ ~isWriting
         /\ ~suppressWatchEvents
         /\ ~heldLockHandle[Self]
         /\ marker.owner # Self
         /\ lpc[Self] = "idle"

\* write Intents settled after a lock timeout and after an I/O error
C15_Witness ==
    /\ \A i \in DOMAIN intents : ~Executing(i)
    /\ \E i \in WriteIntents : intents[i].pc = "done" /\ intents[i].err = LockTimeoutError
    /\ \E i \in WriteIntents : intents[i].pc = "done" /\ intents[i].err = IOError

\* C18: an Intent has its physical read or write in progress only while
\* the instance is inside its lock section, with its own marker at lockPath.
C18_IOUnderLock ==
    \A i \in DOMAIN intents :
        intents[i].pc \in {"reading", "writing"}
          => /\ InSection(Self)
             /\ heldLockHandle[Self]
             /\ marker.owner = Self

(***************************************************************************)
(* Properties of the Change Watcher.                                       *)
(***************************************************************************)
\* the 'change' notifications tagged external dispatched so far
ExternalChanges ==
    Cardinality({k \in DOMAIN changeLog : changeLog[k].source = "external"})

\* every filesystem notification has been delivered and handled
WatcherQuiet ==
    /\ ~fsEvent
    /\ ~schedule
    /\ rpc = "idle"

\* C5: once the watcher has handled everything it was notified of without a
\* read error, it has dispatched one 'change' tagged external for every
\* external modification that differed from the Disk Snapshot and none for
\* one that was equal to it, whatever this instance's own read(),
\* findMatches() and write() did meanwhile.
C5_ExternalChangeNotified ==
    (WatcherQuiet /\ watcherErrors = 0) => ExternalChanges = extDiff

\* a write Intent has installed its proposed Document as this._low.data and
\* its physical write has not completed
SelfWriteInFlight ==
    \E i \in WriteIntents : intents[i].pc \in {"acquire", "writing"}

\* C9: the re-read of a reconciliation never completes while a self-write is
\* in flight, the reconciliation that started before the write included.
C9_NoReconciliationDuringSelfWrite ==
    [][SelfWriteInFlight => ~(rpc = "reading" /\ rpc' # "reading")]_vars

\* C19: findMatches leaves the in-memory Document alone, so what a write
\* Intent that is in flight goes on to persist is what it installed.
C19_FindMatchesLeavesDocument ==
    [][(FindMatches /\ SelfWriteInFlight) => data' = data]_vars

\* C20: lock() and unlock() do not create or remove the marker at lockPath
\* while a write Intent of the instance is in flight.
C20_ManualLockOffWrite ==
    [][SelfWriteInFlight
         => ~((ManualLock \/ ManualUnlock) /\ marker' # marker)]_vars

(***************************************************************************)
(* Properties of the Advisory Lock.                                        *)
(***************************************************************************)
\* C3: at most one process is inside the lock section, in every
\* interleaving in which no live holder outlasts the stale threshold.
C3_MutualExclusion ==
    Cardinality({p \in Procs : InSection(p)}) <= 1

\* _releaseLock is run by p: the finally and the catch of a write, close()
ReleaseBy(p) ==
    \/ ReleaseAfterWrite(p)
    \/ ReleaseAfterTimeout(p)
    \/ CloseIdle(p)

\* C10: a release by an instance that does not hold the lock changes
\* nothing: the marker at lockPath, another instance's included, stays.
C10_NonHolderReleaseIsNoOp ==
    [][\A p \in Procs :
          (ReleaseBy(p) /\ ~heldLockHandle[p]) => marker' = marker]_vars

\* the marker at lockPath is stale: its ts (or, for a marker that does not
\* parse, its mtime) is older than lockStaleMs
StaleMarker == marker # NoMarker /\ marker.old

\* one await of process p's _acquireLock from a stale marker, or after its removal
StaleStep(p) ==
    /\ (lpc[p] = "read" /\ StaleMarker) =>
           lpc'[p] = (IF marker.payload THEN "unlink" ELSE "stat")
    /\ (lpc[p] = "stat" /\ StaleMarker) => lpc'[p] = "unlink"
    /\ lpc[p] = "unlink" => (lpc'[p] = "open" /\ marker' = NoMarker)
    /\ (lpc[p] = "open" /\ marker = NoMarker) =>
           (lpc'[p] = "payload" /\ marker'.owner = p)

\* C16: a process that meets a marker whose timestamp (or, when the marker does
\* not parse, whose mtime) is older than the staleness threshold goes on to
\* unlink it and to retry the exclusive create at once, never sleeping the retry
\* delay and never throwing the timeout; the create of a process that finds no
\* marker succeeds.
C16_StaleMarkerRemoved ==
    [][\A p \in Procs : lpc'[p] # lpc[p] /\ lpc'[p] # "dead" => StaleStep(p)]_vars

\* a process is about to unlink an old marker that has no payload, having gone
\* through the mtime comparison
C16_Witness ==
    \E p \in Procs : lpc[p] = "unlink" /\ StaleMarker /\ ~marker.payload


\* process p is inside the loop of _acquireLock
Acquiring(p) == lpc[p] \in {"open", "payload", "read", "stat", "unlink", "sleep"}

\* C17: every call of _acquireLock returns: it comes to hold the lock or it
\* throws the timeout error (or the process dies).
C17_AcquireTerminates ==
    \A p \in Procs : Acquiring(p) ~> (lpc[p] \in {"held", "failed", "dead"})


(***************************************************************************)
(* Hooks that call back into the instance.                                 *)
(***************************************************************************)
\* the calls made by a listener that awaits the promise
AwaitedNestedCalls ==
    {c \in DOMAIN calls :
        calls[c].from # 0 /\ intents[calls[c].from].waitFor = c}

\* C11: a listener that calls read() on the same instance during dispatch and
\* awaits the promise receives the result: as long as the promise is pending
\* the instance is not stuck, a timer or a chained callback has a step to take.
C11_NestedCallReturns ==
    \A c \in AwaitedNestedCalls :
        calls[c].st = "pending" => ENABLED SystemNest

\* the calls made by a listener after evt.preventChain()
SuppressedNestedCalls ==
    {c \in DOMAIN calls : calls[c].from # 0 /\ calls[c].suppress}

\* C12: the read Intent of a read() that a listener called after
\* evt.preventChain() never dispatches 'read' or 'beforeread' to the listeners.
C12_NestedReadSkipsHooks ==
    \A j \in DOMAIN intents :
        (\E c \in SuppressedNestedCalls : InList(c, intents[j].resolvers)) =>
            intents[j].pc \notin {"prePrimary", "preBefore"}


(***************************************************************************)
(* Hooks and the proposed Document.                                        *)
(***************************************************************************)
\* a listener has called evt.set('h', 1) on this newData
Mutated(nd) == IsObject(nd) /\ "h" \in DOMAIN nd

\* the pre-events of a write Intent
PreEvents(it) == {it.evP, it.evB, it.evW}

\* C21: when a write or replace Intent is not cancelled, the Document adopted
\* in memory and handed to _low.write() carries the mutation made by a listener
\* of any of its pre-events: the canonical event, the legacy 'beforewrite' and
\* the 'write' event of a replace.
C21_HookMutationsPersisted ==
    \A i \in WriteIntents :
        (intents[i].pc = "acquire" /\ \E ev \in PreEvents(intents[i]) : Mutated(ev.newData))
            => data = HookSet(intents[i].proposed0)


\* C22: a write Intent one of whose pre-event listeners (canonical, legacy
\* 'beforewrite', 'write' of a replace) called preventDefault() or setResult()
\* is cancelled: it does not install its Document nor enter _acquireLock.
C22_AnyPreHookCancels ==
    \A i \in WriteIntents :
        intents[i].pc = "acquire" =>
            \A ev \in PreEvents(intents[i]) : ~ev.defaultPrevented


(***************************************************************************)
(* Dispatch to the listeners, one by one (SpecEmit).                       *)
(***************************************************************************)
\* the Intents whose canonical pre-event has been dispatched to listeners
Dispatched == {i \in DOMAIN intents :
                 intents[i].listeners # <<>> /\ intents[i].pc # "prePrimary"}

\* the listeners of ls that throw or reject
Throwers(ls) == {k \in DOMAIN ls : ls[k] \in {"throw", "asyncReject"}}

Has(ls, b) == \E k \in DOMAIN ls : ls[k] = b

\* C23: when a listener throws or rejects, every listener of the event is
\* still called, each error is recorded on the event, no caller is rejected,
\* and the operation is cancelled only if a listener cancelled it; a write
\* that is not cancelled goes on with the Document as the listeners left it.
C23_ThrowingHookIsNotFatal ==
    \A i \in Dispatched :
        LET it == intents[i]
            ls == it.listeners
        IN Throwers(ls) # {} =>
             /\ \A n \in DOMAIN ls : \E m \in DOMAIN it.log : it.log[m] = <<"call", n>>
             /\ it.listenerError = Cardinality(Throwers(ls))
             /\ it.outcome # "rejected"
             /\ \A c \in DOMAIN calls :
                    InList(c, it.resolvers) => calls[c].st # "rejected"
             /\ (it.pc = "cancelAfter" \/ it.outcome = "cancelled")
                    <=> (it.pc # "preBefore" /\ Has(ls, "preventDefault"))
             /\ (it.kind = "write" /\ it.pc \notin {"preBefore", "cancelAfter"}
                   /\ it.outcome # "cancelled")
                    => it.proposed = IF Has(ls, "set") THEN HookSet(it.proposed0)
                                     ELSE it.proposed0

\* a write whose first listener threw and whose second listener mutated the
\* proposal has persisted the mutated Document and resolved
C23_Witness ==
    \E i \in Dispatched :
        /\ intents[i].kind = "write"
        /\ intents[i].listeners = <<"throw", "set">>
        /\ intents[i].pc = "done"
        /\ intents[i].outcome = "resolved"
        /\ file = HookSet(intents[i].proposed0)


\* listener 1 is called and returns, then listener 2 is called and returns, ...
InRegistrationOrder(log) ==
    \A m \in DOMAIN log :
        log[m] = <<IF m % 2 = 1 THEN "call" ELSE "return", (m + 1) \div 2>>

\* C24: the listeners of an event are called one at a time in registration
\* order, a listener that returned a promise has settled before the next one
\* is called, and the Intent leaves the dispatch (towards the lock and the
\* I/O) only after the last listener has returned.
C24_SequentialDispatch ==
    \A i \in DOMAIN intents :
        intents[i].listeners # <<>> =>
            /\ InRegistrationOrder(intents[i].log)
            /\ intents[i].pc # "prePrimary" =>
                   Len(intents[i].log) = 2 * Len(intents[i].listeners)

\* a write Intent whose first listener returned a promise is in _acquireLock
C24_Witness ==
    \E i \in Dispatched :
        /\ intents[i].kind = "write"
        /\ intents[i].listeners[1] = "async"
        /\ intents[i].pc = "acquire"


(***************************************************************************)
(* The 'change' notification of a write Intent.                            *)
(***************************************************************************)
\* the 'change' notifications dispatched for Intent i
ChangesOf(i) == {m \in DOMAIN changeLog : changeLog[m].by = i}

\* the top-level keys in which two Documents differ
Differing(a, b) == {k \in Keys(a) \cup Keys(b) : At(a, k) # At(b, k)}

\* the write Intents whose physical write stored and whose post-phase is over
Persisted == {i \in WriteIntents :
                intents[i].nStored = 1 /\ intents[i].pc \in {"postChange", "done"}}

\* C25: a write Intent that persisted has dispatched one 'change' tagged
\* internal exactly if a top-level key differs between its before Document and
\* the Document it wrote; the diff maps exactly the differing keys to their old
\* and new values; while the notification is dispatched the write is complete
\* and the lock released; an Intent that did not persist dispatches none.
C25_InternalChange ==
    \A i \in WriteIntents :
        LET it == intents[i]
            diff == Differing(it.oldData, it.wbuf)
        IN /\ i \in Persisted =>
                /\ Cardinality(ChangesOf(i)) = (IF diff = {} THEN 0 ELSE 1)
                /\ \A m \in ChangesOf(i) :
                      /\ changeLog[m].source = "internal"
                      /\ DOMAIN changeLog[m].changes = diff
                      /\ \A k \in diff :
                            changeLog[m].changes[k] =
                               [old |-> At(it.oldData, k), new |-> At(it.wbuf, k)]
           /\ it.pc = "postChange" =>
                /\ it.nStored = 1
                /\ ~heldLockHandle[Self]
                /\ ~isWriting
           /\ it.nStored = 0 => ChangesOf(i) = {}


(***************************************************************************)
(* The watcher and the instance's own writes.                              *)
(***************************************************************************)
\* C26: as long as no other program has modified the backing file, the
\* instance dispatches no 'change' tagged external: its own physical writes
\* never come back as external changes, whenever their filesystem
\* notification is delivered.
C26_OwnWriteIsNotExternal ==
    nExt = 0 => ExternalChanges = 0


\* the re-read of a reconciliation has completed and its content was taken
ReReadCompleted ==
    /\ watcherErrors' = watcherErrors
    /\ data' = file
    /\ snapshot' = _cloneSafe(file)

\* the re-read failed: reported, nothing dispatched, nothing changed
ReReadFailed ==
    /\ watcherErrors' = watcherErrors + 1
    /\ rpc' = "idle"
    /\ changeLog' = changeLog
    /\ data' = data
    /\ snapshot' = snapshot

\* C27: the re-read of a reconciliation either completes or fails; when it
\* fails the error is counted on the watcher error channel, no 'change' is
\* dispatched, the in-memory Document and the Disk Snapshot stay as they
\* were, and the watcher goes on: a pending filesystem notification is still
\* delivered and an armed timer still starts a reconciliation.
C27_ReconciliationError ==
    [][/\ (rpc = "reading" /\ rpc' # "reading") => (ReReadCompleted \/ ReReadFailed)
       /\ watcherErrors > 0 =>
             /\ fsEvent => ENABLED FsNotify
             /\ (schedule /\ rpc = "idle") => ENABLED WatchTimerFires]_vars

\* after a failed re-read a later reconciliation has adopted the file
C27_Witness ==
    /\ watcherErrors > 0
    /\ rpc = "postAfter"


(***************************************************************************)
(* What a read finds after a write.                                        *)
(***************************************************************************)
\* what the caller of call c expects to find, the Document having been S
Expected(c, S) ==
    IF calls[c].op = "write" THEN _deepMerge(S, calls[c].data) ELSE calls[c].data

\* the write Intent persisted and resolved, and no listener changed or
\* cancelled its proposal
Succeeded(i) ==
    /\ intents[i].pc = "done"
    /\ intents[i].outcome = "resolved"
    /\ intents[i].nStored = 1
    /\ intents[i].proposed = intents[i].proposed0

\* the read Intents chained directly behind Intent i that read the file
ReadsAfter(i) ==
    {j \in DOMAIN intents :
        /\ intents[j].kind = "read"
        /\ intents[j].prev = i
        /\ intents[j].outcome = "resolved"}

\* after Intent i, the file holds X and a read resolves to X
FoundAfter(i, X) ==
    /\ NoneStartedAfter(i) => file = X
    /\ \A j \in ReadsAfter(i) : AllSettled(intents[j], "resolved", X)

ReplaceStep(a, b) ==
    /\ a.pc = "queued" => b.pc = "prePrimary"
    /\ b.pc = "preBefore" => a.pc = "prePrimary"
    /\ b.pc = "preCompat" =>
          /\ a.pc = "preBefore"
          /\ b.evW = _makeEvent(a.evP.newData)
    /\ b.pc \in {"acquire", "cancelAfter"} => a.pc = "preCompat"
    /\ a.op = LastCall(a).op
    /\ a.op \in {"replace", "resetDefault"}
    /\ a.pc = "postAfter" =>
          (b.pc = "postChange") = (Differing(a.oldData, a.proposed) # {})

\* C29: a replace or resetDefault Intent dispatches the canonical 'replace'
\* pre-event, then 'beforewrite', then a 'write' pre-event that carries the
\* proposal as the 'replace' listeners left it, and only then is cancelled or
\* goes on to persist; its opName is that of the call ('replace' or
\* 'resetDefault'); after persistence 'change' is dispatched exactly if a
\* top-level key differs.
C29_ReplaceAlsoEmitsWrite ==
    [][\A i \in DOMAIN intents :
          (intents[i].kind = "write" /\ intents[i].replace
              /\ intents'[i].pc # intents[i].pc)
            => ReplaceStep(intents[i], intents'[i])]_vars

\* a resetDefault Intent went through its three pre-events, persisted and is
\* dispatching 'change'
C29_Witness ==
    \E i \in WriteIntents :
        /\ intents[i].op = "resetDefault"
        /\ intents[i].pc = "postChange"
        /\ intents[i].nStored = 1

(***************************************************************************)
(* Initialization on a path without a backing file.                        *)
(***************************************************************************)
\* the instance was constructed on a path that had no backing file
ConstructedOnAbsentFile == file \notin ExtDocs

\* the read Intents that went to the adapter and resolved
FileReads ==
    {j \in DOMAIN intents :
        intents[j].kind = "read" /\ intents[j].outcome = "resolved"}

\* C30: when an instance is constructed on a path with no existing backing
\* file, once initialization is over the file holds the default data, and a
\* read() that goes to the adapter resolves to the default data.
C30_DefaultsPersistedAndRead ==
    ConstructedOnAbsentFile /\ ipc = "ready" =>
        /\ file = defaultData
        /\ \A j \in FileReads : AllSettled(intents[j], "resolved", defaultData)

(***************************************************************************)
(* Deep merge.                                                             *)
(***************************************************************************)
\* R is A merged with B by the stated rule, the keys in Skip of B and of the
\* mappings merged below it being passed over
RECURSIVE MergedByRule(_, _, _, _)
MergedByRule(A, B, R, Skip) ==
    /\ IsObject(R)
    /\ DOMAIN R = DOMAIN A \cup (DOMAIN B \ Skip)
    /\ \A k \in DOMAIN R :
          IF k \notin DOMAIN B \ Skip THEN R[k] = A[k]
          ELSE IF IsObject(B[k]) /\ k \notin DOMAIN A
               THEN MergedByRule(<<>>, B[k], R[k], Skip)
          ELSE IF IsObject(B[k]) /\ IsObject(A[k])
               THEN MergedByRule(A[k], B[k], R[k], Skip)
          ELSE R[k] = B[k]

\* C31 as stated: keys only in A keep A's value, keys only in B take B's
\* value, keys in both are merged recursively when both values are mappings
\* and take B's value wholesale otherwise.
C31_DeepMergeRule ==
    result # NoResult => MergedByRule(args[1], args[2], result, {})

\* C31 amended: the same, except that the keys __proto__, constructor and
\* prototype of B, and of the mappings of B that are merged, are passed over.
C31_DeepMergeRuleBut ==
    result # NoResult => MergedByRule(args[1], args[2], result, SkippedKeys)

\* {n: {x: {p: 0}}, a: 1} merged with {n: {x: {q: 1}}}: two levels down
C31_Witness ==
    /\ args = <<[k \in {"n", "a"} |->
                  IF k = "n" THEN Obj1("x", Obj1("p", Scalar(0))) ELSE Scalar(1)],
                Obj1("n", Obj1("x", Obj1("q", Scalar(1))))>>
    /\ result = [k \in {"n", "a"} |->
                  IF k = "n"
                  THEN Obj1("x", [j \in {"p", "q"} |->
                                    IF j = "p" THEN Scalar(0) ELSE Scalar(1)])
                  ELSE Scalar(1)]

(***************************************************************************)
(* findMatches.                                                            *)
(***************************************************************************)
TwoTitles ==
    Obj1("items", Arr(<<Obj1("title", Str(HelloWorld)), Obj1("title", Str(HelloAgain))>>))

\* findMatches("=Hello World") was called on the two titles, the cap above 1
HelloWorldQueried ==
    /\ result # NoResult
    /\ args[1] = <<"=">> \o HelloWorld
    /\ args[2] = TwoTitles
    /\ args[3] >= 2

\* C32: findMatches("=Hello World") against the two titles returns the first
\* item only, as an exact match, and nothing as partial.
C32_ExactMarker ==
    HelloWorldQueried =>
        /\ result.exact = <<[origin |-> <<"items", "[0]", "title">>,
                             match |-> Str(HelloWorld)]>>
        /\ result.partial = <<>>

\* no origin path occurs twice in the list
OriginsDistinct(list) ==
    \A i, j \in DOMAIN list : list[i].origin = list[j].origin => i = j

\* C33: no origin path appears more than once in the partial list and none
\* more than once in the exact list findMatches returns.
C33_OneEntryPerOrigin ==
    result # NoResult =>
        OriginsDistinct(result.partial) /\ OriginsDistinct(result.exact)

\* the cap findMatches applies: Math.max(1, Math.floor(maxMatches))
Cap == IF args[3] < 1 THEN 1 ELSE args[3]

\* C34: the combined number of entries in partial and exact never exceeds
\* maxMatches (at least 1), and no leaf is tested once the cap is reached.
C34_CapRespected ==
    result # NoResult =>
        /\ Count(result) <= Cap
        /\ \A i \in DOMAIN result.tests : result.tests[i].count < Cap

\* the cap was reached before the last leaf: the second title was never tested
C34_Witness ==
    /\ result # NoResult
    /\ args[2] = TwoTitles
    /\ Count(result) = Cap
    /\ \A i \in DOMAIN result.tests :
          result.tests[i].origin # <<"items", "[1]", "title">>

(***************************************************************************)
(* Order of execution.                                                     *)
(***************************************************************************)
\* the read Intents no write Intent was chained before
ReadsBeforeAnyWrite ==
    {j \in DOMAIN intents :
        /\ intents[j].kind = "read"
        /\ \A i \in 1..(j - 1) : intents[i].kind = "read"}

\* C35: Intents execute in the order their timers fired, not in the order of
\* submission: an Intent starts only when every Intent detached before it is
\* done, and a read Intent detached before any write Intent resolves to the
\* Document from before the writes, whichever calls were submitted first.
C35_ExecutionInTimerOrder ==
    /\ \A i \in DOMAIN intents :
          intents[i].pc # "queued" => \A j \in 1..(i - 1) : intents[j].pc = "done"
    /\ \A j \in ReadsBeforeAnyWrite :
          intents[j].outcome = "resolved" => AllSettled(intents[j], "resolved", defaultData)

\* write(..) then read(): the read window closed first, the read resolved to
\* the default data and the write was stored after it
C35_Witness ==
    /\ Len(calls) = 2 /\ Len(intents) = 2
    /\ calls[1].op = "write" /\ calls[2].op = "read"
    /\ intents[1].kind = "read" /\ intents[1].outcome = "resolved"
    /\ calls[2].st = "resolved" /\ calls[2].val = defaultData
    /\ intents[2].kind = "write" /\ intents[2].pc = "done" /\ intents[2].nStored = 1
    /\ file # defaultData

(***************************************************************************)
(* Every submission is settled.                                            *)
(***************************************************************************)
\* call c is held by the pending record of its class
InPending(c) ==
    \/ pendingWrite.set /\ InList(c, pendingWrite.resolvers)
    \/ pendingRead.set /\ InList(c, pendingRead.resolvers)

\* while the pending record of a class exists its timer is armed and none of
\* the calls it holds has been detached or settled
PendingWaits ==
    /\ pendingWrite.set => writeTimer
    /\ pendingRead.set => readTimer
    /\ \A c \in DOMAIN calls :
          InPending(c) =>
              /\ calls[c].st = "pending"
              /\ \A i \in DOMAIN intents : ~InList(c, intents[i].resolvers)

\* C36: every submitted call is eventually resolved or rejected, provided
\* every lock acquisition of the instance comes to an end (the lock or the
\* timeout); until its timer fires a pending Intent does not execute.
C36_EverySubmissionSettles ==
    /\ []PendingWaits
    /\ (Acquiring(Self) ~> ~Acquiring(Self))
          => \A c \in 1..MaxCalls :
                (c \in DOMAIN calls) ~> (c \in DOMAIN calls /\ calls[c].st # "pending")

\* two calls coalesced into one write Intent, which stored and resolved both
C36_Witness ==
    \E i \in WriteIntents :
        /\ Len(intents[i].resolvers) = 2
        /\ intents[i].pc = "done"
        /\ intents[i].nStored = 1
        /\ AllSettled(intents[i], "resolved", calls[intents[i].resolvers[1]].val)

(***************************************************************************)
(* Two instances on one backing file.                                      *)
(***************************************************************************)
\* the write Intents of this instance that stored a merge write and resolved
StoredMergeWrites ==
    {i \in WriteIntents : Succeeded(i) /\ LastCall(intents[i]).op = "write"}

\* C37: once this instance and the instance in the other process have each
\* completed a successful merge write, of disjoint top-level keys, the file
\* contains the keys of both.
C37_BothWritesSurvive ==
    \A i \in StoredMergeWrites :
        nExt = 1 =>
            /\ DOMAIN PeerPayload \subseteq DOMAIN file
            /\ DOMAIN LastCall(intents[i]).data \subseteq DOMAIN file

(***************************************************************************)
(* A write behind the instance's own lock().                               *)
(***************************************************************************)
\* the write Intent is in _acquireLock and the marker at lockPath is not of
\* its making: the application's lock() put it there
BehindOwnLock ==
    /\ marker # NoMarker
    /\ lpc[Self] \in {"open", "read", "stat", "sleep", "unlink"}

\* the catch block of a write Intent whose _acquireLock timed out completes
TimeoutHandled(i) ==
    /\ intents[i].pc = "relCatch"
    /\ intents[i].err = LockTimeoutError
    /\ intents'[i].pc = "done"

ReconFoundChanges ==
    /\ rpc = "postAfter"
    /\ rpc' # "postAfter"
    /\ _computeTopLevelChanges(oldRuntime, diskSnapshot) # {}

\* C39: a reconciliation of the watcher dispatches its 'change' notification
\* as usual, whether or not a hook of a write Intent that called
\* preventChain() is still awaiting.
C39_SuppressionStaysNested ==
    [][ReconFoundChanges =>
          /\ Len(changeLog') = Len(changeLog) + 1
          /\ changeLog'[Len(changeLog')].source = "external"]_vars

(***************************************************************************)
(* close() beside pending work.                                            *)
(***************************************************************************)
\* the step is the call of close()
CloseCalled == ~closed.done /\ closed'.done

\* the call was submitted before close() and its Intent detached after it
SubmittedBeforeClose(i) ==
    /\ closed.done
    /\ i > closed.intents
    /\ \E j \in DOMAIN intents[i].resolvers : intents[i].resolvers[j] <= closed.calls

\* after close() nothing of the pending work is stuck: an armed write timer
\* can fire, a scheduled reconciliation can start, an unsettled call has a
\* step of the instance ahead of it, and a write Intent that is done went
\* through the lock and the adapter and resolved its callers
WorkGoesOnAfterClose ==
    closed.done =>
        /\ writeTimer => ENABLED WriteTimerFires
        /\ (schedule /\ rpc = "idle") => ENABLED WatchTimerFires
        /\ (\E c \in DOMAIN calls : calls[c].st = "pending") => ENABLED SystemClose
        /\ \A i \in WriteIntents :
              intents[i].pc = "done" =>
                  /\ intents[i].nAcq = 1
                  /\ intents[i].nStored = 1
                  /\ AllSettled(intents[i], "resolved", Undefined)

====
